---- MODULE Spec2Model ----
(***************************************************************************)
(* Model of the ICM-42688 I2C driver (asr_sdm_drivers/icm42688/icm42688.c). *)
(*                                                                         *)
(*  Spec       bring-up: icm42688_register, one step per bus transaction   *)
(*  SpecFetch  the frame decoder and the single-shot sample path           *)
(*  SpecCtl    concurrent callers of the character-device entry points     *)
(***************************************************************************)
EXTENDS Integers, Sequences, FiniteSets, TLC

(* ------------------------------------------------------------------ *)
(* Program constants                                                   *)
(* ------------------------------------------------------------------ *)
OK == 0
EIO == 5
EAGAIN == 11
ENOMEM == 12
EEXIST == 17
ENODEV == 19
EINVAL == 22
ENOTTY == 25
ETIMEDOUT == 110
ENOENT == 2

ICM_WHOAMI_EXPECTED == 71
ICM_REG_WHO_AM_I == 117
ICM_REG_DEVICE_CONFIG == 17
ICM_REG_PWR_MGMT0 == 78
ICM_REG_GYRO_CONFIG0 == 79
ICM_REG_ACCEL_CONFIG0 == 80
ICM_REG_ACCEL_DATA_X1 == 31
ICM_REG_FIFO_CONFIG_INIT == 22
ICM_REG_FIFO_CONFIGURATION == 95
ICM_REG_FIFO_DATA == 48
ICM_FIFO_READ_LEN == 16
ICM_BURST_READ_LEN == 12
ICM_PWR_LN_GYRO_ACCEL == 15
SAMPLE_SIZE == 12

ADDR_PRIMARY == 104
ADDR_ALTERNATE == 105

(* Number of WHO_AM_I reads of one icm_check_whoami call. *)
WHOAMI_RETRIES == 50

(* ------------------------------------------------------------------ *)
(* The bus as the driver sees it                                       *)
(* ------------------------------------------------------------------ *)
(* Negative results I2C_TRANSFER can hand back. *)
BusErrors == {-EIO, -ETIMEDOUT}

(* icm_i2c_read / icm_i2c_write1: ret < 0 ? ret : OK *)
XferResult_Eio(ret) == IF ret < 0 THEN -EIO ELSE OK
XferResult(ret) == IF ret < 0 THEN ret ELSE OK

BusResults == {XferResult(r) : r \in BusErrors \cup {0}}

(* Bytes a device may answer to a WHO_AM_I read. *)
IdBytes == {ICM_WHOAMI_EXPECTED, 0, 255}

(* Addresses the board code passes in cfg->addr. *)
CfgAddrs == {ADDR_PRIMARY, ADDR_ALTERNATE}

(* Results of register_driver. *)
RegDriverResults == {OK, -EEXIST, -ENOMEM}

VARIABLES
  pc,          \* position inside icm42688_register
  cfg,         \* the caller's configuration: [valid, addr]
  heap,        \* dev: "none" | "live" | "freed"
  lockst,      \* dev->lock: "none" | "init" | "destroyed"
  i2c_addr,    \* dev->i2c_addr
  tries,       \* i of icm_check_whoami
  id,          \* id of icm_check_whoami
  cfgstep,     \* next write of icm_configure_default (1..5)
  ret,         \* value returned by icm42688_register ("none" while running)
  registered,  \* the device node exists and points at dev
  wlog,        \* register writes issued on the bus, in order
  idGood,      \* addresses at which a WHO_AM_I read returned OK and 0x47
  idreads,     \* WHO_AM_I reads issued, one count per icm_check_whoami call
  phases,      \* bring-up phases entered, in order
  nfree,       \* calls of kmm_free(dev)
  ndestroy,    \* calls of nxmutex_destroy(&dev->lock)
  nregcalls,   \* calls of register_driver
  fifo_buf,    \* the bytes handed to the frame decoder (index 0..15)
  flen,        \* len handed to icm_parse_fifo_sample
  out,         \* the caller's struct icm42688_sample_s
  pret,        \* value returned by icm_parse_fifo_sample
  ubuf,        \* the user's buffer of read() / ioctl(ICM_IOCTL_GET_SAMPLE)
  uret,        \* value returned by read() / ioctl()
  port,        \* the frame waiting at the streaming data port
  nbus,        \* bus transactions issued by the last call
  busrc,       \* result of the last bus read of the last call
  lastop,      \* the entry point the last step ran
  cpc,         \* per caller: position inside its file operation
  ccmd,        \* per caller: the operation or ioctl command it is in
  cret1,       \* per caller: ret1 of the ICM_IOCTL_GET_SCALES branch
  cret,        \* the last return of a file operation: [who, ret]
  lock,        \* dev->lock: the caller holding it, 0 when free
  bufpos,      \* dev->bufpos
  lasttx,      \* the last bus transaction: [who, reg, addr, kind]
  uarg,        \* arguments of the last call: [null, len]
  fbus,        \* bus reads issued by the last fetch, in order: [reg, len, rc]
  creg,        \* the device's ACCEL_CONFIG0 register
  greg,        \* the device's GYRO_CONFIG0 register
  raw,         \* the device's 12 data registers from ACCEL_DATA_X1 (index 0..11)
  scales,      \* the user's uint32_t scales[2] (index 0..1)
  tscales,     \* scales[] as the two switch statements left it
  uval,        \* the user's int / uint8_t of the single-register commands
  sbus,        \* bus reads issued by the last call, in order: [reg, len, rc]
  tcall,       \* a register transport call: [op, reg, len, val]
  traw,        \* what I2C_TRANSFER returns to that call
  txlog,       \* I2C_TRANSFER calls issued by that call: [msgs, count]
  tret,        \* value returned by icm_i2c_read / icm_i2c_write1
  unreg,       \* icm42688_unregister: [called, ret]
  app,         \* the locals of the application's loop
  pin,         \* what the loop is fed with: [script, scales]
  pev,         \* the last pass of the loop: what it did, on what, from where
  pcnt,        \* counts over the passes of the loop so far
  led,         \* led_control: [fd, initialized] (g_led_fd, g_led_initialized)
  lblink,      \* led_control_blink: [pc, i, period, n]
  lout,        \* the last return of a led_control call: [op, ret, started, calls]
  llog         \* led_control: [opens, fds, closes, on, last]

bvars == <<pc, cfg, heap, lockst, i2c_addr, tries, id, cfgstep, ret,
           registered, wlog, idGood, idreads, phases, nfree, ndestroy,
           nregcalls>>

fvars == <<fifo_buf, flen, out, pret, ubuf, uret, port, nbus, busrc, lastop,
           uarg, fbus>>

cvars == <<cpc, ccmd, cret1, cret, lock, bufpos, lasttx>>

svars == <<creg, greg, raw, scales, tscales, uval, sbus>>

tvars == <<tcall, traw, txlog, tret>>

pvars == <<app, pin, pev, pcnt>>

lvars == <<led, lblink, lout, llog>>

xvars == <<svars, tvars, unreg, pvars, lvars>>

vars == <<bvars, fvars, cvars, xvars>>

(* ------------------------------------------------------------------ *)
(* icm42688_register                                                   *)
(* ------------------------------------------------------------------ *)

(* uint8_t alt = (dev->i2c_addr == 0x68) ? 0x69 : 0x68; *)
AltAddr_Same(a) == a
AltAddr(a) == IF a = ADDR_PRIMARY THEN ADDR_ALTERNATE ELSE ADDR_PRIMARY

(* if (ret == OK && id == ICM_WHOAMI_EXPECTED) *)
WhoamiMatch_RcOnly(rc, b) == rc = OK
WhoamiMatch(rc, b) == rc = OK /\ b = ICM_WHOAMI_EXPECTED

(* for (int i = 0; i < 50; i++) *)
WhoamiExhausted_Early(i) == ~(i < WHOAMI_RETRIES - 1)
WhoamiExhausted_Late(i) == ~(i < WHOAMI_RETRIES + 1)
WhoamiExhausted(i) == ~(i < WHOAMI_RETRIES)

(* The writes of icm_configure_default, in program order. *)
ConfigWrites ==
  <<[reg |-> ICM_REG_PWR_MGMT0,          val |-> ICM_PWR_LN_GYRO_ACCEL],
    [reg |-> ICM_REG_GYRO_CONFIG0,       val |-> 102],
    [reg |-> ICM_REG_ACCEL_CONFIG0,      val |-> 102],
    [reg |-> ICM_REG_FIFO_CONFIG_INIT,   val |-> 64],
    [reg |-> ICM_REG_FIFO_CONFIGURATION, val |-> 7]>>

ConfigRegs == {ConfigWrites[k].reg : k \in 1..Len(ConfigWrites)}

(* Whether the result of write k is tested (if (ret < 0) return ret;) or
   discarded ((void)icm_i2c_write1(...)). *)
ConfigChecked_All(k) == TRUE
ConfigChecked(k) == k <= 3

BusWrite(reg, val, rc) ==
  wlog' = Append(wlog, [addr |-> i2c_addr, reg |-> reg, val |-> val, rc |-> rc])

(* fail: nxmutex_destroy(&dev->lock); kmm_free(dev); return ret; *)
Fail_NoDestroy(r) ==
  /\ heap' = "freed"
  /\ nfree' = nfree + 1
  /\ ret' = r
  /\ pc' = "done"
  /\ UNCHANGED <<lockst, ndestroy>>
Fail_Leak(r) ==
  /\ ret' = r
  /\ pc' = "done"
  /\ UNCHANGED <<heap, lockst, nfree, ndestroy>>
Fail(r) ==
  /\ lockst' = "destroyed"
  /\ ndestroy' = ndestroy + 1
  /\ heap' = "freed"
  /\ nfree' = nfree + 1
  /\ ret' = r
  /\ pc' = "done"

(* if (cfg == NULL || cfg->i2c == NULL) return -EINVAL; *)
RegisterBadConfig ==
  /\ pc = "entry"
  /\ ~cfg.valid
  /\ ret' = -EINVAL
  /\ pc' = "done"
  /\ UNCHANGED <<cfg, heap, lockst, i2c_addr, tries, id, cfgstep, registered,
                 wlog, idGood, idreads, phases, nfree, ndestroy, nregcalls>>

(* dev = kmm_malloc(...); if (!dev) return -ENOMEM; *)
RegisterNoMemory ==
  /\ pc = "entry"
  /\ cfg.valid
  /\ ret' = -ENOMEM
  /\ pc' = "done"
  /\ UNCHANGED <<cfg, heap, lockst, i2c_addr, tries, id, cfgstep, registered,
                 wlog, idGood, idreads, phases, nfree, ndestroy, nregcalls>>

(* memset, nxmutex_init, dev->i2c_addr = cfg->addr *)
RegisterAlloc ==
  /\ pc = "entry"
  /\ cfg.valid
  /\ heap' = "live"
  /\ lockst' = "init"
  /\ i2c_addr' = cfg.addr
  /\ pc' = "reset1"
  /\ UNCHANGED <<cfg, tries, id, cfgstep, ret, registered, wlog, idGood,
                 idreads, phases, nfree, ndestroy, nregcalls>>

(* ret = icm_reset(dev); if (ret < 0) goto fail;  (first and second call) *)
Reset ==
  /\ pc \in {"reset1", "reset2"}
  /\ \E rc \in BusResults :
       /\ BusWrite(ICM_REG_DEVICE_CONFIG, 1, rc)
       /\ phases' = Append(phases, "Reset")
       /\ IF rc < 0
            THEN /\ Fail(rc)
                 /\ UNCHANGED <<tries, id>>
            ELSE /\ pc' = IF pc = "reset1" THEN "whoami1" ELSE "whoami2"
                 /\ tries' = 0
                 /\ id' = 255
                 /\ UNCHANGED <<heap, lockst, nfree, ndestroy, ret>>
  /\ UNCHANGED <<cfg, i2c_addr, cfgstep, registered, idGood, idreads, nregcalls>>

(* One iteration of the loop of icm_check_whoami, with what follows the
   loop when this was its last iteration. A failed transfer leaves id as
   it was. *)
WhoamiRead ==
  /\ pc \in {"whoami1", "whoami2"}
  /\ ~WhoamiExhausted(tries)
  /\ \E rc \in BusResults, b \in IdBytes :
       LET nid == IF rc = OK THEN b ELSE id
           matched == WhoamiMatch(rc, nid)
           last == ~matched /\ WhoamiExhausted(tries + 1)
           fallback == last /\ pc = "whoami1"
           p1 == IF tries = 0 THEN Append(phases, "IdentityCheck") ELSE phases
           r1 == IF tries = 0 THEN Append(idreads, 1)
                 ELSE [idreads EXCEPT ![Len(idreads)] = @ + 1]
       IN
       /\ id' = nid
       /\ idreads' = r1
       /\ idGood' = IF rc = OK /\ b = ICM_WHOAMI_EXPECTED
                      THEN idGood \cup {i2c_addr} ELSE idGood
       /\ phases' = IF fallback THEN Append(p1, "AddressFallback") ELSE p1
       /\ IF matched
            THEN \* return OK; fall through to icm_configure_default
                 /\ pc' = "configure"
                 /\ cfgstep' = 1
                 /\ UNCHANGED <<tries, i2c_addr, heap, lockst, nfree, ndestroy, ret>>
            ELSE IF ~last
              THEN \* usleep(20000); i++
                   /\ tries' = tries + 1
                   /\ UNCHANGED <<pc, cfgstep, i2c_addr, heap, lockst,
                                  nfree, ndestroy, ret>>
              ELSE IF fallback
                THEN \* return -ENODEV; try the alternate address
                     /\ tries' = tries + 1
                     /\ i2c_addr' = AltAddr(i2c_addr)
                     /\ pc' = "reset2"
                     /\ UNCHANGED <<cfgstep, heap, lockst, nfree, ndestroy, ret>>
                ELSE \* return -ENODEV; goto fail
                     /\ tries' = tries + 1
                     /\ Fail(-ENODEV)
                     /\ UNCHANGED <<cfgstep, i2c_addr>>
  /\ UNCHANGED <<cfg, registered, wlog, nregcalls>>

(* One write of icm_configure_default. *)
ConfigureWrite ==
  /\ pc = "configure"
  /\ cfgstep \in 1..Len(ConfigWrites)
  /\ \E rc \in BusResults :
       /\ BusWrite(ConfigWrites[cfgstep].reg, ConfigWrites[cfgstep].val, rc)
       /\ phases' = IF cfgstep = 1 THEN Append(phases, "Configure") ELSE phases
       /\ IF rc < 0 /\ ConfigChecked(cfgstep)
            THEN \* return ret; goto fail
                 /\ Fail(rc)
                 /\ UNCHANGED cfgstep
            ELSE /\ cfgstep' = cfgstep + 1
                 /\ pc' = IF cfgstep = Len(ConfigWrites) THEN "regdrv" ELSE pc
                 /\ UNCHANGED <<heap, lockst, nfree, ndestroy, ret>>
  /\ UNCHANGED <<cfg, i2c_addr, tries, id, registered, idGood, idreads,
                 nregcalls>>

(* ret = register_driver(path, &g_icm_fops, 0666, dev); *)
RegisterDriver ==
  /\ pc = "regdrv"
  /\ \E rc \in RegDriverResults :
       /\ nregcalls' = nregcalls + 1
       /\ IF rc < 0
            THEN /\ Fail(rc)
                 /\ phases' = Append(phases, "Register")
                 /\ UNCHANGED registered
            ELSE /\ registered' = TRUE
                 /\ phases' = Append(Append(phases, "Register"), "Ready")
                 /\ ret' = OK
                 /\ pc' = "done"
                 /\ UNCHANGED <<heap, lockst, nfree, ndestroy>>
  /\ UNCHANGED <<cfg, i2c_addr, tries, id, cfgstep, wlog, idGood, idreads>>

BringupInit ==
  /\ pc = "entry"
  /\ cfg \in [valid : BOOLEAN, addr : CfgAddrs]
  /\ heap = "none"
  /\ lockst = "none"
  /\ i2c_addr = 0
  /\ tries = 0
  /\ id = 255
  /\ cfgstep = 0
  /\ ret = "none"
  /\ registered = FALSE
  /\ wlog = <<>>
  /\ idGood = {}
  /\ idreads = <<>>
  /\ phases = <<>>
  /\ nfree = 0
  /\ ndestroy = 0
  /\ nregcalls = 0

(* ------------------------------------------------------------------ *)
(* Integer arithmetic of the C code                                    *)
(* ------------------------------------------------------------------ *)
(* (int16_t)v: the low 16 bits of v as a two's complement number. *)
ToInt16(v) ==
  LET m == v % 65536 IN IF m >= 32768 THEN m - 65536 ELSE m

(* (hi << 8) | lo for two uint8_t promoted to int; the low byte of hi << 8
   is zero, so the bitwise or adds. *)
ShlOr8(hi, lo) == hi * 256 + lo

(* x >> 1 on an int16_t promoted to int: arithmetic shift (a logical shift
   of the 32-bit int gives the same low 16 bits). *)
Sar1_Unsigned(x) == ((x % 65536) - (x % 2)) \div 2
Sar1(x) == (x - (x % 2)) \div 2

SampleFields == {"accel_x", "accel_y", "accel_z", "gyro_x", "gyro_y", "gyro_z"}

ZeroSample == [f \in SampleFields |-> 0]

(* ------------------------------------------------------------------ *)
(* Frames the streaming data port may deliver                          *)
(* ------------------------------------------------------------------ *)
(* 16-bit words with both signs, both extremes and unequal bytes. *)
WordPool ==
  <<0, 1, 32767, 32768, 65535, 32769, 255, 256, 65534, 16384, 49152, 4660>>

(* How many words of WordPool the frames are built from. *)
NWords == 6

(* Values of the bytes the decoder is to skip. *)
PadBytes == {0, 165}

PoolWord(k) == WordPool[((k - 1) % NWords) + 1]

Hi(w) == w \div 256
Lo(w) == w % 256

(* The frame whose accel words are pool words a, a+1, a+2, whose gyro words
   are pool words g, g+1, g+2, with byte 0 = p and bytes 13..15 = 255 - p. *)
FrameOf(a, g, p) ==
  [i \in 0..(ICM_FIFO_READ_LEN - 1) |->
     CASE i = 0 -> p
       [] i \in 1..6 ->
            LET w == PoolWord(a + ((i - 1) \div 2))
            IN IF i % 2 = 1 THEN Hi(w) ELSE Lo(w)
       [] i \in 7..12 ->
            LET w == PoolWord(g + ((i - 7) \div 2))
            IN IF i % 2 = 1 THEN Hi(w) ELSE Lo(w)
       [] OTHER -> 255 - p]

Frames == {FrameOf(a, g, p) : a \in 1..NWords, g \in 1..NWords, p \in PadBytes}

(* Largest len handed to icm_parse_fifo_sample. *)
MaxLen == 17

(* ------------------------------------------------------------------ *)
(* Frame decoder and the single-shot sample path                       *)
(* ------------------------------------------------------------------ *)

(* icm_parse_fifo_sample(fifo_buf, len, out): [ret, out] *)
ParseFifoSample_ClearsOnShort(buf, len, o) ==
  IF len < ICM_FIFO_READ_LEN
    THEN [ret |-> -EINVAL, out |-> ZeroSample]
    ELSE [ret |-> OK,
          out |-> [accel_x |-> ToInt16(Sar1(ToInt16(ShlOr8(buf[1], buf[2])))),
                   accel_y |-> ToInt16(Sar1(ToInt16(ShlOr8(buf[3], buf[4])))),
                   accel_z |-> ToInt16(Sar1(ToInt16(ShlOr8(buf[5], buf[6])))),
                   gyro_x  |-> ToInt16(ShlOr8(buf[7], buf[8])),
                   gyro_y  |-> ToInt16(ShlOr8(buf[9], buf[10])),
                   gyro_z  |-> ToInt16(ShlOr8(buf[11], buf[12]))]]
ParseFifoSample(buf, len, o) ==
  IF len < ICM_FIFO_READ_LEN
    THEN [ret |-> -EINVAL, out |-> o]
    ELSE [ret |-> OK,
          out |-> [accel_x |-> ToInt16(Sar1(ToInt16(ShlOr8(buf[1], buf[2])))),
                   accel_y |-> ToInt16(Sar1(ToInt16(ShlOr8(buf[3], buf[4])))),
                   accel_z |-> ToInt16(Sar1(ToInt16(ShlOr8(buf[5], buf[6])))),
                   gyro_x  |-> ToInt16(ShlOr8(buf[7], buf[8])),
                   gyro_y  |-> ToInt16(ShlOr8(buf[9], buf[10])),
                   gyro_z  |-> ToInt16(ShlOr8(buf[11], buf[12]))]]

(* One bus read as the driver issued it: register, length, result. *)
BusLog(reg, len, rc) == [reg |-> reg, len |-> len, rc |-> rc]

(* icm_read_fifo_packet(dev, out) for a bus read that returned rc and
   filled fifo_buf with frame: [ret, out, bus]; bus lists the bus reads the
   call issued. *)
ReadFifoPacket_Fallback(rc, frame, o) ==
  LET fifo == BusLog(ICM_REG_FIFO_DATA, ICM_FIFO_READ_LEN, rc) IN
  IF rc < 0
    THEN [ret |-> -EIO, out |-> o,
          bus |-> <<fifo, BusLog(ICM_REG_ACCEL_DATA_X1, ICM_BURST_READ_LEN, rc)>>]
    ELSE [ret |-> OK, out |-> o, bus |-> <<fifo>>]
ReadFifoPacket(rc, frame, o) ==
  LET fifo == BusLog(ICM_REG_FIFO_DATA, ICM_FIFO_READ_LEN, rc) IN
  IF rc < 0
    THEN [ret |-> -EIO, out |-> o, bus |-> <<fifo>>]
    ELSE LET p == ParseFifoSample(frame, ICM_FIFO_READ_LEN, ZeroSample) IN
         IF p.ret < 0
           THEN [ret |-> p.ret, out |-> o, bus |-> <<fifo>>]
           ELSE [ret |-> OK,
                 out |-> [p.out EXCEPT
                            !.accel_x = ToInt16(Sar1(@)),
                            !.accel_y = ToInt16(Sar1(@)),
                            !.accel_z = ToInt16(Sar1(@))],
                 bus |-> <<fifo>>]

(* icm_read_oneshot(dev, buf, len): [ret, buf, nbus, bus]; nbus counts the
   bus reads the call issued, bus lists them. *)
ReadOneshot_LateCheck(len, rc, frame, buf) ==
  LET r == ReadFifoPacket(rc, frame, ZeroSample) IN
  IF len < SAMPLE_SIZE
    THEN [ret |-> -EINVAL, buf |-> buf, nbus |-> Len(r.bus), bus |-> r.bus]
    ELSE IF r.ret = OK
      THEN [ret |-> SAMPLE_SIZE, buf |-> r.out, nbus |-> Len(r.bus),
            bus |-> r.bus]
      ELSE [ret |-> -EAGAIN, buf |-> buf, nbus |-> Len(r.bus), bus |-> r.bus]
ReadOneshot(len, rc, frame, buf) ==
  IF len < SAMPLE_SIZE
    THEN [ret |-> -EINVAL, buf |-> buf, nbus |-> 0, bus |-> <<>>]
    ELSE LET r == ReadFifoPacket(rc, frame, ZeroSample) IN
         IF r.ret = OK
           THEN [ret |-> SAMPLE_SIZE, buf |-> r.out, nbus |-> Len(r.bus),
                 bus |-> r.bus]
           ELSE [ret |-> -EAGAIN, buf |-> buf, nbus |-> Len(r.bus),
                 bus |-> r.bus]

(* icm_ioctl_dev(dev, ICM_IOCTL_GET_SAMPLE, arg): [ret, buf, nbus, bus] *)
IoctlGetSample(argnull, rc, frame, buf) ==
  IF argnull
    THEN [ret |-> -EINVAL, buf |-> buf, nbus |-> 0, bus |-> <<>>]
    ELSE LET r == ReadOneshot(SAMPLE_SIZE, rc, frame, ZeroSample) IN
         IF r.ret < 0
           THEN [ret |-> r.ret, buf |-> buf, nbus |-> r.nbus, bus |-> r.bus]
           ELSE [ret |-> OK, buf |-> r.buf, nbus |-> r.nbus, bus |-> r.bus]

(* A call of icm_parse_fifo_sample(fifo_buf, flen, &out). *)
ParseCall ==
  /\ lastop = "none"
  /\ LET p == ParseFifoSample(fifo_buf, flen, out) IN
       /\ out' = p.out
       /\ pret' = p.ret
  /\ lastop' = "parse"
  /\ UNCHANGED <<fifo_buf, flen, ubuf, uret, port, nbus, busrc, uarg, fbus>>

(* Lengths of the user's buffer handed to read(). *)
ReadLens == {0, SAMPLE_SIZE - 1, SAMPLE_SIZE, ICM_FIFO_READ_LEN}

(* read() on the device node: icm_read_f -> icm_read_dev -> icm_read_oneshot *)
ReadDev ==
  /\ \E len \in ReadLens, rc \in BusResults :
       LET r == ReadOneshot(len, rc, port, ubuf) IN
       /\ ubuf' = r.buf
       /\ uret' = r.ret
       /\ nbus' = r.nbus
       /\ fbus' = r.bus
       /\ busrc' = IF r.nbus > 0 THEN rc ELSE OK
       /\ fifo_buf' = IF r.nbus > 0 /\ rc = OK THEN port ELSE fifo_buf
       /\ uarg' = [null |-> FALSE, len |-> len]
  /\ lastop' = "read"
  /\ UNCHANGED <<flen, out, pret, port>>

(* ioctl(ICM_IOCTL_GET_SAMPLE): icm_ioctl_f -> icm_ioctl_dev *)
IoctlSample ==
  /\ \E argnull \in BOOLEAN, rc \in BusResults :
       LET r == IoctlGetSample(argnull, rc, port, ubuf) IN
       /\ ubuf' = r.buf
       /\ uret' = r.ret
       /\ nbus' = r.nbus
       /\ fbus' = r.bus
       /\ busrc' = IF r.nbus > 0 THEN rc ELSE OK
       /\ fifo_buf' = IF r.nbus > 0 /\ rc = OK THEN port ELSE fifo_buf
       /\ uarg' = [null |-> argnull, len |-> 0]
  /\ lastop' = "ioctl_sample"
  /\ UNCHANGED <<flen, out, pret, port>>

ZeroFrame == [i \in 0..(ICM_FIFO_READ_LEN - 1) |-> 0]

FetchIdle ==
  /\ fifo_buf = ZeroFrame
  /\ flen = 0
  /\ out = ZeroSample
  /\ pret = OK
  /\ ubuf = ZeroSample
  /\ uret = OK
  /\ port = FrameOf(1, 1, 0)
  /\ nbus = 0
  /\ busrc = OK
  /\ lastop = "none"
  /\ uarg = [null |-> FALSE, len |-> 0]
  /\ fbus = <<>>

(* What the caller's sample struct may hold before the decoder is called. *)
StaleSamples == {ZeroSample, [f \in SampleFields |-> -1]}

(* The frame at the data port and the user's buffer before the first call. *)
FetchInputs ==
  /\ fifo_buf = ZeroFrame
  /\ flen = 0
  /\ out = ZeroSample
  /\ pret = OK
  /\ ubuf \in StaleSamples
  /\ uret = OK
  /\ port \in Frames
  /\ nbus = 0
  /\ busrc = OK
  /\ lastop = "none"
  /\ uarg = [null |-> FALSE, len |-> 0]
  /\ fbus = <<>>

(* The decoder's arguments: a buffer, a length and the caller's struct. *)
DecodeInputs ==
  /\ fifo_buf \in Frames
  /\ flen \in 0..MaxLen
  /\ out \in StaleSamples
  /\ pret = OK
  /\ ubuf = ZeroSample
  /\ uret = OK
  /\ port = FrameOf(1, 1, 0)
  /\ nbus = 0
  /\ busrc = OK
  /\ lastop = "none"
  /\ uarg = [null |-> FALSE, len |-> 0]
  /\ fbus = <<>>

(* ------------------------------------------------------------------ *)
(* ICM_IOCTL_GET_SCALES and the single-register commands               *)
(* ------------------------------------------------------------------ *)
(* The ioctl commands that read one configuration register. *)
RegCmds == {"GET_ACCEL_FS", "GET_GYRO_FS", "GET_ACCEL_CONFIG0_RAW",
            "GET_GYRO_CONFIG0_RAW"}

(* The register a single-read ioctl command reads. *)
CmdReg(cmd) ==
  IF cmd \in {"GET_ACCEL_FS", "GET_ACCEL_CONFIG0_RAW"}
    THEN ICM_REG_ACCEL_CONFIG0
    ELSE ICM_REG_GYRO_CONFIG0

(* (v >> 4) & 0x03 *)
FsSel_Bits43(v) == (v \div 8) % 4
FsSel(v) == (v \div 16) % 4

(* switch (acc_fs_sel) *)
AccelScale_Datasheet(sel) ==
  CASE sel = 0 -> 2048
    [] sel = 1 -> 4096
    [] sel = 2 -> 8192
    [] sel = 3 -> 16384
    [] OTHER -> 2048
AccelScale(sel) ==
  CASE sel = 0 -> 16384
    [] sel = 1 -> 8192
    [] sel = 2 -> 16384
    [] sel = 3 -> 2048
    [] OTHER -> 16384

(* switch (gyr_fs_sel) *)
GyroScale(sel) ==
  CASE sel = 0 -> 164
    [] sel = 1 -> 328
    [] sel = 2 -> 656
    [] sel = 3 -> 1310
    [] OTHER -> 164

(* icm_parse_sample(buf, len, out): [ret, out] *)
ParseSample_NoShift(buf, len, o) ==
  IF len < ICM_BURST_READ_LEN
    THEN [ret |-> -EINVAL, out |-> o]
    ELSE [ret |-> OK,
          out |-> [accel_x |-> ToInt16(ShlOr8(buf[0], buf[1])),
                   accel_y |-> ToInt16(ShlOr8(buf[2], buf[3])),
                   accel_z |-> ToInt16(ShlOr8(buf[4], buf[5])),
                   gyro_x  |-> ToInt16(ShlOr8(buf[6], buf[7])),
                   gyro_y  |-> ToInt16(ShlOr8(buf[8], buf[9])),
                   gyro_z  |-> ToInt16(ShlOr8(buf[10], buf[11]))]]
ParseSample(buf, len, o) ==
  IF len < ICM_BURST_READ_LEN
    THEN [ret |-> -EINVAL, out |-> o]
    ELSE [ret |-> OK,
          out |-> [accel_x |-> ToInt16(Sar1(ToInt16(ShlOr8(buf[0], buf[1])))),
                   accel_y |-> ToInt16(Sar1(ToInt16(ShlOr8(buf[2], buf[3])))),
                   accel_z |-> ToInt16(Sar1(ToInt16(ShlOr8(buf[4], buf[5])))),
                   gyro_x  |-> ToInt16(ShlOr8(buf[6], buf[7])),
                   gyro_y  |-> ToInt16(ShlOr8(buf[8], buf[9])),
                   gyro_z  |-> ToInt16(ShlOr8(buf[10], buf[11]))]]

(* The square of an times scales[0]^2: accel_x^2 + accel_y^2 + accel_z^2. *)
SumSq(o) == o.accel_x * o.accel_x + o.accel_y * o.accel_y
              + o.accel_z * o.accel_z

(* an > t and an < t for an = sqrtf(ax*ax + ay*ay + az*az), ax = x / s, and
   t = h / 100: q * 10000 compared with h^2 * s^2, q the sum of squares, with
   s^2 split at 10000 to stay inside 32 bits.  The comparison is the exact
   one; the rounding of the float operations (2^-24 relative each) is not
   modelled. *)
NormAbove(q, s, h) ==
  LET a == (s * s) \div 10000
      b == (s * s) % 10000
  IN (q - (h * h) * a) > ((h * h) * b) \div 10000

NormBelow(q, s, h) ==
  LET a == (s * s) \div 10000
      b == (s * s) % 10000
  IN IF ((h * h) * b) % 10000 = 0
       THEN (q - (h * h) * a) < ((h * h) * b) \div 10000
       ELSE (q - (h * h) * a) <= ((h * h) * b) \div 10000

(* if (an > 1.7f && an < 2.2f && scales[0] < 65536u) scales[0] *= 2u;
   else if (an > 0.45f && an < 0.65f && scales[0] > 512u) scales[0] /= 2u; *)
SanityAdjust_Twice(s, o) ==
  IF NormAbove(SumSq(o), s, 170) /\ NormBelow(SumSq(o), s, 220) /\ s < 65536
    THEN s * 4
    ELSE IF NormAbove(SumSq(o), s, 45) /\ NormBelow(SumSq(o), s, 65) /\ s > 512
      THEN s \div 4
      ELSE s
SanityAdjust(s, o) ==
  IF NormAbove(SumSq(o), s, 170) /\ NormBelow(SumSq(o), s, 220) /\ s < 65536
    THEN s * 2
    ELSE IF NormAbove(SumSq(o), s, 45) /\ NormBelow(SumSq(o), s, 65) /\ s > 512
      THEN s \div 2
      ELSE s

(* scales[] before the two switch statements ran. *)
NoScales == [i \in 0..1 |-> 0]


(* icm_ioctl_dev(dev, ICM_IOCTL_GET_SCALES, arg) when the three register
   reads return rc1, rc2, rc3 and deliver acc, gyr, rawbuf:
   [ret, scales, tscales, bus] *)
IoctlGetScales(argnull, rc1, acc, rc2, gyr, rc3, rawbuf, sc) ==
  IF argnull
    THEN [ret |-> -EINVAL, scales |-> sc, tscales |-> NoScales, bus |-> <<>>]
    ELSE
      LET cfgreads == <<BusLog(ICM_REG_ACCEL_CONFIG0, 1, rc1),
                        BusLog(ICM_REG_GYRO_CONFIG0, 1, rc2)>>
          allreads == cfgreads \o
                        <<BusLog(ICM_REG_ACCEL_DATA_X1, ICM_BURST_READ_LEN, rc3)>>
          t == [i \in 0..1 |-> IF i = 0 THEN AccelScale(FsSel(acc))
                                        ELSE GyroScale(FsSel(gyr))]
          p == ParseSample(rawbuf, ICM_BURST_READ_LEN, ZeroSample)
      IN IF rc1 < 0
           THEN [ret |-> rc1, scales |-> sc, tscales |-> NoScales,
                 bus |-> cfgreads]
           ELSE IF rc2 < 0
             THEN [ret |-> rc2, scales |-> sc, tscales |-> NoScales,
                   bus |-> cfgreads]
             ELSE IF rc3 # OK \/ p.ret # OK
               THEN [ret |-> OK, scales |-> t, tscales |-> t,
                     bus |-> allreads]
               ELSE [ret |-> OK,
                     scales |-> [t EXCEPT ![0] = SanityAdjust(t[0], p.out)],
                     tscales |-> t, bus |-> allreads]

(* icm_ioctl_dev for ICM_IOCTL_GET_ACCEL_FS, _GET_GYRO_FS and the two
   _CONFIG0_RAW commands when the register read returns rc and delivers v:
   [ret, val, bus] *)
IoctlGetReg_WriteFirst(cmd, argnull, rc, v, old) ==
  IF argnull
    THEN [ret |-> -EINVAL, val |-> old, bus |-> <<>>]
    ELSE IF rc < 0
      THEN [ret |-> rc, val |-> 0, bus |-> <<BusLog(CmdReg(cmd), 1, rc)>>]
      ELSE [ret |-> OK,
            val |-> IF cmd \in {"GET_ACCEL_FS", "GET_GYRO_FS"}
                      THEN FsSel(v) ELSE v,
            bus |-> <<BusLog(CmdReg(cmd), 1, rc)>>]
IoctlGetReg(cmd, argnull, rc, v, old) ==
  IF argnull
    THEN [ret |-> -EINVAL, val |-> old, bus |-> <<>>]
    ELSE IF rc < 0
      THEN [ret |-> rc, val |-> old, bus |-> <<BusLog(CmdReg(cmd), 1, rc)>>]
      ELSE [ret |-> OK,
            val |-> IF cmd \in {"GET_ACCEL_FS", "GET_GYRO_FS"}
                      THEN FsSel(v) ELSE v,
            bus |-> <<BusLog(CmdReg(cmd), 1, rc)>>]

(* ioctl() with a command icm_ioctl_dev does not know: every comparison
   of cmd fails and the function ends in return -ENOTTY; *)
IoctlOther ==
  /\ \E argnull \in BOOLEAN : uarg' = [null |-> argnull, len |-> 0]
  /\ uret' = -ENOTTY
  /\ sbus' = <<>>
  /\ nbus' = 0
  /\ busrc' = OK
  /\ lastop' = "ioctl_other"
  /\ UNCHANGED <<fifo_buf, flen, out, pret, ubuf, port, fbus, creg, greg, raw,
                 scales, tscales, uval>>

(* ioctl(ICM_IOCTL_GET_SCALES) *)
IoctlScales ==
  /\ \E argnull \in BOOLEAN, rc1 \in BusResults, rc2 \in BusResults,
        rc3 \in BusResults :
       LET r == IoctlGetScales(argnull, rc1, creg, rc2, greg, rc3, raw, scales)
       IN /\ scales' = r.scales
          /\ tscales' = r.tscales
          /\ sbus' = r.bus
          /\ uret' = r.ret
          /\ nbus' = Len(r.bus)
          /\ busrc' = IF Len(r.bus) > 0 THEN r.bus[Len(r.bus)].rc ELSE OK
          /\ uarg' = [null |-> argnull, len |-> 0]
  /\ lastop' = "ioctl_scales"
  /\ UNCHANGED <<fifo_buf, flen, out, pret, ubuf, port, fbus, creg, greg, raw,
                 uval>>

(* ioctl() with one of the four single-register commands *)
IoctlReg ==
  /\ \E cmd \in RegCmds, argnull \in BOOLEAN, rc \in BusResults :
       LET r == IoctlGetReg(cmd, argnull, rc,
                            IF CmdReg(cmd) = ICM_REG_ACCEL_CONFIG0
                              THEN creg ELSE greg, uval)
       IN /\ uval' = r.val
          /\ sbus' = r.bus
          /\ uret' = r.ret
          /\ nbus' = Len(r.bus)
          /\ busrc' = IF Len(r.bus) > 0 THEN rc ELSE OK
          /\ uarg' = [null |-> argnull, len |-> 0]
          /\ lastop' = cmd
  /\ UNCHANGED <<fifo_buf, flen, out, pret, ubuf, port, fbus, creg, greg, raw,
                 scales, tscales>>

(* Contents of ACCEL_CONFIG0 / GYRO_CONFIG0: every selector, each with two
   settings of the other six bits. *)
CfgBytes == {0, 6, 22, 38, 54, 102, 159, 255}

GyroCfgBytes == {6, 22, 102, 159, 255}

(* Accel words of the data registers: at rest, and around the edges of the
   two windows for each table scale. *)
ProbeWords ==
  << <<32767, 32767, 32767>>, <<16384, 0, 0>>, <<32768, 0, 1>>,
     <<8192, 0, 0>>, <<2048, 65535, 0>>, <<0, 0, 0>>,
     <<12000, 56000, 8000>>, <<14744, 0, 0>>, <<14746, 0, 0>>,
     <<21300, 0, 0>>, <<21298, 0, 0>>, <<0, 4096, 61440>> >>

(* How many entries of ProbeWords the data registers are drawn from. *)
NProbes == 10

(* The 12 data registers holding accel words w and fixed gyro words. *)
ProbeOf(w) ==
  [i \in 0..(ICM_BURST_READ_LEN - 1) |->
     CASE i \in 0..5 ->
            IF i % 2 = 0 THEN Hi(w[(i \div 2) + 1]) ELSE Lo(w[(i \div 2) + 1])
       [] i \in 6..7 -> IF i % 2 = 0 THEN Hi(WordPool[4]) ELSE Lo(WordPool[4])
       [] i \in 8..9 -> IF i % 2 = 0 THEN Hi(WordPool[7]) ELSE Lo(WordPool[7])
       [] OTHER -> IF i % 2 = 0 THEN Hi(WordPool[12]) ELSE Lo(WordPool[12])]

Probes == {ProbeOf(ProbeWords[((k - 1) % Len(ProbeWords)) + 1]) : k \in 1..NProbes}

(* What the user's scales[] may hold before the call. *)
StaleScales == {NoScales, [i \in 0..1 |-> 7]}

ScalesIdle ==
  /\ creg = 0
  /\ greg = 0
  /\ raw = ProbeOf(ProbeWords[6])
  /\ scales = NoScales
  /\ tscales = NoScales
  /\ uval = 0
  /\ sbus = <<>>

(* The device's registers and the user's memory before a query. *)
ScalesInputs ==
  /\ creg \in CfgBytes
  /\ greg \in GyroCfgBytes
  /\ raw \in Probes
  /\ scales \in StaleScales
  /\ tscales = NoScales
  /\ uval = 170
  /\ sbus = <<>>

(* ------------------------------------------------------------------ *)
(* Character-device entry points under concurrent callers              *)
(* ------------------------------------------------------------------ *)
(* Tasks that hold the device node open. *)
NCallers == 2

Callers == 1..NCallers

(* ioctl commands; "OTHER" stands for every command the driver does not
   know. *)
IoctlCmds == {"GET_SAMPLE", "GET_SCALES", "OTHER"} \cup RegCmds

(* Whether icm_read_f / icm_ioctl_f take dev->lock around the call: they do
   not, only icm_open_f and icm_close_f lock. *)
EntryLocks(op) == op \in {"open", "close"}

(* Entering a file operation: nxmutex_lock(&dev->lock) where the wrapper
   has one. *)
Acquire(c, op) ==
  IF EntryLocks(op)
    THEN lock = 0 /\ lock' = c
    ELSE UNCHANGED lock

(* Leaving a file operation: nxmutex_unlock(&dev->lock) where the wrapper
   locked. *)
Release(c) ==
  IF lock = c THEN lock' = 0 ELSE UNCHANGED lock

Returned(c, r) == cret' = [who |-> c, ret |-> r]

Return(c, r) ==
  /\ cpc' = [cpc EXCEPT ![c] = "idle"]
  /\ Returned(c, r)
  /\ ccmd' = [ccmd EXCEPT ![c] = "none"]
  /\ cret1' = [cret1 EXCEPT ![c] = OK]
  /\ Release(c)

(* msg.addr = dev->i2c_addr *)
MsgAddr_Primary(devaddr) == ADDR_PRIMARY
MsgAddr(devaddr) == devaddr

(* A register read a file operation issues through icm_i2c_read. *)
BusRead_AsWrite(c, reg) ==
  lasttx' = [who |-> c, reg |-> reg, addr |-> MsgAddr(i2c_addr),
             kind |-> "write"]
BusRead(c, reg) ==
  lasttx' = [who |-> c, reg |-> reg, addr |-> MsgAddr(i2c_addr),
             kind |-> "read"]

(* icm_open_f / icm_close_f up to the critical section *)
OpenCloseEnter(c) ==
  /\ cpc[c] = "idle"
  /\ \E op \in {"open", "close"} :
       /\ Acquire(c, op)
       /\ ccmd' = [ccmd EXCEPT ![c] = op]
  /\ cpc' = [cpc EXCEPT ![c] = "bufpos"]
  /\ UNCHANGED <<cret1, cret, bufpos, lasttx>>

(* dev->bufpos = 0; nxmutex_unlock(&dev->lock); return OK; *)
OpenCloseBody(c) ==
  /\ cpc[c] = "bufpos"
  /\ bufpos' = 0
  /\ Return(c, OK)
  /\ UNCHANGED lasttx

(* icm_write_f returns len, icm_seek_f returns 0; neither touches dev. *)
WriteSeek(c) ==
  /\ cpc[c] = "idle"
  /\ \E op \in {"write", "seek"}, len \in {0, SAMPLE_SIZE} :
       Returned(c, IF op = "write" THEN len ELSE 0)
  /\ UNCHANGED <<cpc, ccmd, cret1, lock, bufpos, lasttx>>

(* icm_read_f -> icm_read_oneshot up to the bus read *)
ReadEnter(c) ==
  /\ cpc[c] = "idle"
  /\ \E len \in ReadLens :
       IF len < SAMPLE_SIZE
         THEN /\ Returned(c, -EINVAL)
              /\ UNCHANGED <<cpc, ccmd, lock>>
         ELSE /\ Acquire(c, "read")
              /\ cpc' = [cpc EXCEPT ![c] = "fifo"]
              /\ ccmd' = [ccmd EXCEPT ![c] = "read"]
              /\ UNCHANGED cret
  /\ UNCHANGED <<cret1, bufpos, lasttx>>

(* icm_ioctl_f -> icm_ioctl_dev up to the first bus read *)
IoctlEnter(c) ==
  /\ cpc[c] = "idle"
  /\ \E cmd \in IoctlCmds, argnull \in BOOLEAN :
       /\ IF cmd = "OTHER"
            THEN /\ Returned(c, -ENOTTY)
                 /\ UNCHANGED <<cpc, ccmd, lock>>
            ELSE IF argnull
              THEN /\ Returned(c, -EINVAL)
                   /\ UNCHANGED <<cpc, ccmd, lock>>
              ELSE /\ Acquire(c, "ioctl")
                   /\ ccmd' = [ccmd EXCEPT ![c] = cmd]
                   /\ cpc' = [cpc EXCEPT ![c] =
                                CASE cmd = "GET_SAMPLE" -> "fifo"
                                  [] cmd = "GET_SCALES" -> "scales_accel"
                                  [] OTHER -> "reg"]
                   /\ UNCHANGED cret
  /\ UNCHANGED <<cret1, bufpos, lasttx>>

(* icm_read_fifo_packet: the 16-byte read of the data port, then the return
   of read() or of ICM_IOCTL_GET_SAMPLE *)
FifoRead(c) ==
  /\ cpc[c] = "fifo"
  /\ BusRead(c, ICM_REG_FIFO_DATA)
  /\ \E rc \in BusResults :
       LET r == IF ccmd[c] = "read"
                  THEN ReadOneshot(SAMPLE_SIZE, rc, ZeroFrame, ZeroSample).ret
                  ELSE IoctlGetSample(FALSE, rc, ZeroFrame, ZeroSample).ret
       IN Return(c, r)
  /\ UNCHANGED bufpos

(* ICM_IOCTL_GET_SCALES: ret1 = icm_i2c_read(dev, ICM_REG_ACCEL_CONFIG0, ..) *)
ScalesAccelRead(c) ==
  /\ cpc[c] = "scales_accel"
  /\ BusRead(c, ICM_REG_ACCEL_CONFIG0)
  /\ \E rc \in BusResults : cret1' = [cret1 EXCEPT ![c] = rc]
  /\ cpc' = [cpc EXCEPT ![c] = "scales_gyro"]
  /\ UNCHANGED <<ccmd, cret, lock, bufpos>>

(* ret2 = icm_i2c_read(dev, ICM_REG_GYRO_CONFIG0, ..);
   if (ret1 < 0) return ret1; if (ret2 < 0) return ret2; *)
ScalesGyroRead(c) ==
  /\ cpc[c] = "scales_gyro"
  /\ BusRead(c, ICM_REG_GYRO_CONFIG0)
  /\ \E rc \in BusResults :
       IF cret1[c] < 0
         THEN Return(c, cret1[c])
         ELSE IF rc < 0
           THEN Return(c, rc)
           ELSE /\ cpc' = [cpc EXCEPT ![c] = "scales_probe"]
                /\ UNCHANGED <<ccmd, cret1, cret, lock>>
  /\ UNCHANGED bufpos

(* The probe: icm_i2c_read(dev, ICM_REG_ACCEL_DATA_X1, raw, 12); return OK
   whatever it gave. *)
ScalesProbeRead(c) ==
  /\ cpc[c] = "scales_probe"
  /\ BusRead(c, ICM_REG_ACCEL_DATA_X1)
  /\ Return(c, OK)
  /\ UNCHANGED bufpos

(* The single register read of GET_*_FS and GET_*_CONFIG0_RAW *)
RegRead(c) ==
  /\ cpc[c] = "reg"
  /\ BusRead(c, CmdReg(ccmd[c]))
  /\ \E rc \in BusResults : Return(c, IF rc < 0 THEN rc ELSE OK)
  /\ UNCHANGED bufpos

CtlIdle ==
  /\ cpc = [c \in Callers |-> "idle"]
  /\ ccmd = [c \in Callers |-> "none"]
  /\ cret1 = [c \in Callers |-> OK]
  /\ cret = [who |-> 0, ret |-> OK]
  /\ lock = 0
  /\ bufpos = 0
  /\ lasttx = [who |-> 0, reg |-> ICM_REG_FIFO_CONFIGURATION,
               addr |-> ADDR_PRIMARY, kind |-> "write"]

(* ------------------------------------------------------------------ *)
(* Register transport                                                  *)
(* ------------------------------------------------------------------ *)
(* msg[0], msg[1] of icm_i2c_read *)
ReadMsgs(addr, reg, len) ==
  <<[addr |-> addr, flags |-> "I2C_M_NOSTOP", length |-> 1, buffer |-> <<reg>>],
    [addr |-> addr, flags |-> "I2C_M_READ", length |-> len, buffer |-> <<>>]>>

(* msg of icm_i2c_write1 *)
Write1Msgs(addr, reg, val) ==
  <<[addr |-> addr, flags |-> "0", length |-> 2, buffer |-> <<reg, val>>]>>

(* icm_i2c_read(dev, reg, buf, len) when I2C_TRANSFER returns r: the value
   returned and the I2C_TRANSFER calls made: [ret, xfers] *)
I2cRead(devaddr, reg, len, r) ==
  [ret |-> XferResult(r),
   xfers |-> <<[msgs |-> ReadMsgs(MsgAddr(devaddr), reg, len), count |-> 2]>>]

(* icm_i2c_write1(dev, reg, val) when I2C_TRANSFER returns r: [ret, xfers] *)
I2cWrite1(devaddr, reg, val, r) ==
  [ret |-> XferResult(r),
   xfers |-> <<[msgs |-> Write1Msgs(MsgAddr(devaddr), reg, val), count |-> 1]>>]

(* What I2C_TRANSFER may return: a negated errno, zero, or a positive
   count from a lower half that reports one. *)
TransferResults == BusErrors \cup {0, 2}

(* The registers the driver names. *)
DriverRegs ==
  {ICM_REG_WHO_AM_I, ICM_REG_DEVICE_CONFIG, ICM_REG_PWR_MGMT0,
   ICM_REG_GYRO_CONFIG0, ICM_REG_ACCEL_CONFIG0, ICM_REG_ACCEL_DATA_X1,
   ICM_REG_FIFO_CONFIG_INIT, ICM_REG_FIFO_CONFIGURATION, ICM_REG_FIFO_DATA}

(* Calls of the two transport functions: the lengths the driver reads and
   values it writes. *)
TransportCalls ==
  {[op |-> "read", reg |-> r, len |-> n, val |-> 0] :
     r \in DriverRegs, n \in {1, ICM_BURST_READ_LEN, ICM_FIFO_READ_LEN}}
  \cup
  {[op |-> "write", reg |-> r, len |-> 0, val |-> v] :
     r \in DriverRegs, v \in {0, 1, ICM_PWR_LN_GYRO_ACCEL}}

NoCall == [op |-> "none", reg |-> 0, len |-> 0, val |-> 0]

(* One call of icm_i2c_read or icm_i2c_write1. *)
TransportCall ==
  /\ tcall.op # "none"
  /\ txlog = <<>>
  /\ LET r == IF tcall.op = "read"
                THEN I2cRead(i2c_addr, tcall.reg, tcall.len, traw)
                ELSE I2cWrite1(i2c_addr, tcall.reg, tcall.val, traw)
     IN /\ tret' = r.ret
        /\ txlog' = r.xfers
  /\ UNCHANGED <<tcall, traw>>

TransportIdle ==
  /\ tcall = NoCall
  /\ traw = 0
  /\ txlog = <<>>
  /\ tret = OK

TransportInputs ==
  /\ tcall \in TransportCalls
  /\ traw \in TransferResults
  /\ txlog = <<>>
  /\ tret = OK

(* ------------------------------------------------------------------ *)
(* icm42688_unregister                                                 *)
(* ------------------------------------------------------------------ *)
(* Results of unregister_driver. *)
UnregDriverResults == {OK, -ENOENT}

(* icm42688_unregister(path): return unregister_driver(path); *)
Unregister ==
  /\ pc = "done"
  /\ registered
  /\ \E r \in UnregDriverResults :
       /\ unreg' = [called |-> TRUE, ret |-> r]
       /\ registered' = (r # OK)
  /\ UNCHANGED <<pc, cfg, heap, lockst, i2c_addr, tries, id, cfgstep, ret,
                 wlog, idGood, idreads, phases, nfree, ndestroy, nregcalls>>

NotUnregistered == unreg = [called |-> FALSE, ret |-> OK]

(* The one task of the sample application that uses the device node. *)
Consumer == 1

(* ------------------------------------------------------------------ *)
(* The sample application icm42688_test: the acquisition loop behind the
   device node.  Its float values are kept in fixed point: acceleration in
   units of 1/AccUnit g, which is exact for every scale the loop can hold
   (powers of two up to AccUnit); rate in units of 1/GyrUnit dps, rounded
   to the nearest unit.  Comparisons of the norm are the exact ones; the
   rounding of the float operations is not modelled. *)
AccUnit == 65536
GyrUnit == 100000

anorm_trigger_frames == 5
print_every_n == 10

AccelFields == {"accel_x", "accel_y", "accel_z"}

Abs(x) == IF x < 0 THEN -x ELSE x

(* n / d rounded to the nearest integer, d > 0 *)
Round(n, d) == (2 * n + d) \div (2 * d)

(* The largest r in lo..hi with r * r <= q. *)
RECURSIVE RootIn(_, _, _)
RootIn(q, lo, hi) ==
  IF lo = hi
    THEN lo
    ELSE LET mid == (lo + hi + 1) \div 2 IN
         IF mid * mid <= q THEN RootIn(q, mid, hi) ELSE RootIn(q, lo, mid - 1)

(* The sum q of the squares of a sample's raw accel values, with its
   integer root r. *)
RawNorm(smp) == [q |-> SumSq(smp), r |-> RootIn(SumSq(smp), 0, 46340)]

NoNorm == [q |-> 0, r |-> 0]

(* anorm > h / 100 and anorm < h / 100 for anorm = sqrtf(ax_g * ax_g +
   ay_g * ay_g + az_g * az_g) and ax_g = accel_x / s: n.q compared with
   (h * s / 100)^2 around n.r. *)
AnormAbove(n, s, h) ==
  LET v == h * s - 100 * n.r
  IN IF v < 0 THEN TRUE
     ELSE IF v >= 100 THEN FALSE
     ELSE (n.q - n.r * n.r) * 10000 > 200 * n.r * v + v * v

AnormBelow(n, s, h) ==
  LET v == h * s - 100 * n.r
  IN IF v <= 0 THEN FALSE
     ELSE IF v >= 100 THEN TRUE
     ELSE (n.q - n.r * n.r) * 10000 < 200 * n.r * v + v * v

(* The locals of main() when the loop is entered (lines 114-145); the gyro
   scale is held in tenths of an LSB per dps, as ICM_IOCTL_GET_SCALES
   delivers it. *)
AppStart ==
  [first |-> TRUE,
   fs_ready |-> FALSE,
   accel_lsb_per_g |-> 2048,
   gyro_lsb_per_dps |-> 164,
   bias |-> ZeroSample,
   filt_init |-> FALSE,
   filt |-> ZeroSample,
   accel_scale_sanity_fixed |-> FALSE,
   anorm_high_cnt |-> 0,
   anorm_low_cnt |-> 0,
   print_count |-> 0]

(* if (first) *)
IsFirst_Never(a) == FALSE
IsFirst(a) == a.first

(* if (!fs_ready) *)
ScalesWanted_Always(a) == TRUE
ScalesWanted(a) == ~a.fs_ready

(* Lines 160-177: the ioctl(fd, 0x1301, scales) returned irc and, when it
   succeeded, filled scales[] with sc. *)
FetchScales_KeepDefaults(a, irc, sc) ==
  [a EXCEPT !.fs_ready = TRUE]
FetchScales_Swapped(a, irc, sc) ==
  IF irc = OK
    THEN [a EXCEPT !.accel_lsb_per_g = sc[2],
                   !.gyro_lsb_per_dps = sc[1],
                   !.fs_ready = TRUE]
    ELSE a
FetchScales(a, irc, sc) ==
  IF irc = OK
    THEN [a EXCEPT !.accel_lsb_per_g = sc[1],
                   !.gyro_lsb_per_dps = sc[2],
                   !.fs_ready = TRUE]
    ELSE a

(* Lines 179-186: the six values in physical units. *)
Convert(smp, s, gs) ==
  [f \in SampleFields |->
     IF f \in AccelFields
       THEN smp[f] * (AccUnit \div s)
       ELSE Round(smp[f] * 10 * GyrUnit, gs)]

(* fs_ready && !accel_scale_sanity_fixed *)
SanityArmed_NoLatch(a) == a.fs_ready
SanityArmed(a) == a.fs_ready /\ ~a.accel_scale_sanity_fixed

InHighBand(q, s) == AnormAbove(q, s, 170) /\ AnormBelow(q, s, 230)
InLowBand(q, s) == AnormAbove(q, s, 45) /\ AnormBelow(q, s, 65)

(* Lines 203-247: the counters, the latch and the accel scale after the
   sanity check of a frame whose raw norm is q. *)
SanityCheck(a, q) ==
  LET s == a.accel_lsb_per_g IN
  IF SanityArmed(a) /\ InHighBand(q, s)
    THEN IF a.anorm_high_cnt + 1 >= anorm_trigger_frames /\ s < 65536
           THEN [a EXCEPT !.accel_lsb_per_g = s * 2,
                          !.accel_scale_sanity_fixed = TRUE,
                          !.anorm_high_cnt = 0,
                          !.anorm_low_cnt = 0]
           ELSE [a EXCEPT !.anorm_high_cnt = @ + 1]
    ELSE IF SanityArmed(a) /\ InLowBand(q, s)
      THEN IF a.anorm_low_cnt + 1 >= anorm_trigger_frames /\ s > 512
             THEN [a EXCEPT !.accel_lsb_per_g = s \div 2,
                            !.accel_scale_sanity_fixed = TRUE,
                            !.anorm_high_cnt = 0,
                            !.anorm_low_cnt = 0]
             ELSE [a EXCEPT !.anorm_low_cnt = @ + 1]
      ELSE [a EXCEPT !.anorm_high_cnt = IF InHighBand(q, s) THEN @ ELSE 0,
                     !.anorm_low_cnt = IF InLowBand(q, s) THEN @ ELSE 0]

(* Lines 196-199: gyro_abs_max *)
GyroAbsMax(v) ==
  LET m1 == IF 0 < Abs(v.gyro_x) THEN Abs(v.gyro_x) ELSE 0
      m2 == IF m1 < Abs(v.gyro_y) THEN Abs(v.gyro_y) ELSE m1
  IN IF m2 < Abs(v.gyro_z) THEN Abs(v.gyro_z) ELSE m2

(* Line 248: stable, for the values v and the norm of q under scale s *)
Stable_GyroOnly(v, q, s) == GyroAbsMax(v) < GyrUnit
Stable(v, q, s) ==
  /\ GyroAbsMax(v) < GyrUnit
  /\ AnormAbove(q, s, 98) /\ AnormBelow(q, s, 102)

(* (1.0f - beta_bias) * b + beta_bias * x, beta_bias = 0.005 = 1/200 *)
Ema(b, x) == b + Round(x - b, 200)

(* Lines 255-268: if (stable) every bias term takes its EMA step; then
   the bias, updated or not, is subtracted from all six values. w is what
   goes into the filter. *)
UpdateAndRemove_RemoveFirst(bias, v, st) ==
  [bias |-> IF st THEN [f \in SampleFields |-> Ema(bias[f], v[f])] ELSE bias,
   w |-> [f \in SampleFields |-> v[f] - bias[f]]]
UpdateAndRemove(bias, v, st) ==
  LET b == IF st THEN [f \in SampleFields |-> Ema(bias[f], v[f])] ELSE bias
  IN [bias |-> b, w |-> [f \in SampleFields |-> v[f] - b[f]]]

(* alpha * v + (1.0f - alpha) * f, alpha = 0.15 = 15/100 *)
Iir_Overshoot(f, v) == f + Round(115 * (v - f), 100)
Iir(f, v) == f + Round(15 * (v - f), 100)

(* if (++print_count >= print_every_n) *)
PrintDue_Late(n) == n > print_every_n
PrintDue(n) == n >= print_every_n

(* Lines 179-305: an accepted frame smp, with the scales ready in a:
   [app, kind, norm, stable, vals, printed, calls] *)
Accept(a, smp) ==
  LET q == RawNorm(smp)
      a1 == SanityCheck(a, q)
      fixed == a1.accel_lsb_per_g # a.accel_lsb_per_g
      v == Convert(smp, a1.accel_lsb_per_g, a1.gyro_lsb_per_dps)
      st == Stable(v, q, a1.accel_lsb_per_g)
      ur == UpdateAndRemove(a1.bias, v, st)
      b == ur.bias
      w == ur.w
      flt == IF ~a1.filt_init
               THEN w
               ELSE [f \in SampleFields |-> Iir(a1.filt[f], w[f])]
      due == PrintDue(a1.print_count + 1)
  IN [app |-> [a1 EXCEPT !.bias = b,
                         !.filt_init = TRUE,
                         !.filt = flt,
                         !.print_count = IF due THEN 0 ELSE @ + 1],
      kind |-> "accept",
      norm |-> q,
      stable |-> st,
      vals |-> v,
      printed |-> due,
      calls |-> IF fixed THEN <<"read", "GET_ACCEL_CONFIG0_RAW">>
                         ELSE <<"read">>]

(* Lines 148-306: one pass of the loop body whose read() returned
   sizeof(s) and filled s with smp; irc and sc are what a call of
   ioctl(fd, 0x1301, scales) returns and delivers in this pass. *)
LoopBody(a, smp, irc, sc) ==
  IF IsFirst(a)
    THEN [app |-> [a EXCEPT !.first = FALSE], kind |-> "discard",
          norm |-> NoNorm, stable |-> FALSE, vals |-> ZeroSample, printed |-> FALSE,
          calls |-> <<"read">>]
    ELSE IF ScalesWanted(a)
      THEN LET a1 == FetchScales(a, irc, sc) IN
           IF a1.fs_ready
             THEN [Accept(a1, smp) EXCEPT
                     !.calls = <<"read", "ioctl_scales">>
                                 \o SubSeq(@, 2, Len(@))]
             ELSE [app |-> a1, kind |-> "noscale",
                   norm |-> NoNorm, stable |-> FALSE, vals |-> ZeroSample, printed |-> FALSE,
                   calls |-> <<"read", "ioctl_scales">>]
      ELSE Accept(a, smp)

(* Samples read() delivers to the loop: <<accel x, y, z, gyro x, y, z>>. *)
SamplePool ==
  <<<<0, 0, 16384, 0, 0, 0>>,
    <<0, 0, 4096, 0, 0, 0>>,
    <<0, 0, 8192, 0, 0, 0>>,
    <<100, -200, 16300, 10, -12, 3>>,
    <<0, 0, 16384, 300, 0, -40>>,
    <<0, 0, 16720, 0, 0, 0>>,
    <<0, 0, 2048, 5, -3, 0>>,
    <<8192, 0, 0, 0, 0, 0>>,
    <<0, 12000, 0, 0, 20, 0>>,
    <<0, 0, 512, 0, 0, 0>>>>

(* How many of them the loop is fed with. *)
NFrames == 7

SampleOf(k) ==
  LET t == SamplePool[((k - 1) % Len(SamplePool)) + 1] IN
  [accel_x |-> t[1], accel_y |-> t[2], accel_z |-> t[3],
   gyro_x |-> t[4], gyro_y |-> t[5], gyro_z |-> t[6]]

(* The stream of samples: f1 and f2 in turns, or f1 for the first sw
   successful reads and f2 from then on. *)
SwitchPoints == {3, 6}

Scripts ==
  [f1 : 1..NFrames, f2 : 1..NFrames, sw : {0}, alt : {TRUE}]
    \cup [f1 : 1..NFrames, f2 : 1..NFrames, sw : SwitchPoints, alt : {FALSE}]

ScriptSample(sc, n) ==
  IF sc.alt
    THEN SampleOf(IF n % 2 = 1 THEN sc.f1 ELSE sc.f2)
    ELSE SampleOf(IF n <= sc.sw THEN sc.f1 ELSE sc.f2)

(* scales[] as ICM_IOCTL_GET_SCALES delivers it to the loop. *)
DriverScales == {<<16384, 164>>, <<8192, 328>>, <<2048, 1310>>}

(* Results of ioctl(fd, 0x1301, scales). *)
ScalesResults == {OK, -EIO}

(* Successful reads of one run, and failures of the scales ioctl in it. *)
MaxFrames == 22
MaxScaleFails == 2

NoEvent ==
  [kind |-> "none", norm |-> NoNorm, stable |-> FALSE, vals |-> ZeroSample,
   printed |-> FALSE, calls |-> <<>>, smp |-> ZeroSample, pre |-> AppStart]

NoCounts ==
  [reads |-> 0, scalls |-> 0, sok |-> 0, accepted |-> 0, prints |-> 0,
   fixes |-> 0, hrun |-> 0, lrun |-> 0]

(* Lines 307-311: the locals after the branch taken when read() did not
   return sizeof(s): usleep(10000) only. *)
ReadFailed_Restart(a) == AppStart
ReadFailed(a) == a

(* One pass of while (1): read(), then the loop body or the sleep of the
   failure branch.  pcnt counts the delivered frames, the scales ioctls
   and their successes, the accepted frames, the output lines and the scale
   corrections, and keeps the lengths hrun and lrun of the current runs of
   accepted frames whose norm, under the scale the sanity check saw, lay in
   the high and in the low band. *)
PipeLoop ==
  /\ pcnt.reads < MaxFrames
  /\ \E ok \in BOOLEAN, irc \in ScalesResults :
       IF ~ok
         THEN /\ pev' = [NoEvent EXCEPT !.kind = "readfail",
                                        !.calls = <<"read">>,
                                        !.pre = app]
              /\ app' = ReadFailed(app)
              /\ UNCHANGED pcnt
         ELSE \E smp \in {ScriptSample(pin.script, pcnt.reads + 1)} :
              \E r \in {LoopBody(app, smp, irc, pin.scales)} :
              LET called == Len(r.calls) > 1 /\ r.calls[2] = "ioctl_scales"
                  s0 == IF called /\ irc = OK THEN pin.scales[1]
                                              ELSE app.accel_lsb_per_g
              IN /\ called /\ irc # OK => pcnt.scalls - pcnt.sok < MaxScaleFails
                 /\ app' = r.app
                 /\ pev' = [kind |-> r.kind, norm |-> r.norm,
                            stable |-> r.stable,
                            vals |-> r.vals, printed |-> r.printed,
                            calls |-> r.calls, smp |-> smp, pre |-> app]
                 /\ pcnt' =
                      [reads |-> pcnt.reads + 1,
                       scalls |-> pcnt.scalls + (IF called THEN 1 ELSE 0),
                       sok |-> pcnt.sok
                                 + (IF called /\ irc = OK THEN 1 ELSE 0),
                       accepted |-> pcnt.accepted
                                 + (IF r.kind = "accept" THEN 1 ELSE 0),
                       prints |-> pcnt.prints
                                 + (IF r.printed THEN 1 ELSE 0),
                       fixes |-> pcnt.fixes
                                 + (IF r.app.accel_lsb_per_g # s0
                                      THEN 1 ELSE 0),
                       hrun |-> IF r.kind # "accept" THEN pcnt.hrun
                                ELSE IF InHighBand(r.norm, s0)
                                  THEN pcnt.hrun + 1 ELSE 0,
                       lrun |-> IF r.kind # "accept" THEN pcnt.lrun
                                ELSE IF InLowBand(r.norm, s0)
                                  THEN pcnt.lrun + 1 ELSE 0]
  /\ UNCHANGED pin

PipeIdle ==
  /\ app = AppStart
  /\ pin = [script |-> [f1 |-> 1, f2 |-> 1, sw |-> 0, alt |-> TRUE],
            scales |-> <<16384, 164>>]
  /\ pev = NoEvent
  /\ pcnt = NoCounts

PipeInputs ==
  /\ app = AppStart
  /\ pin \in [script : Scripts, scales : DriverScales]
  /\ pev = NoEvent
  /\ pcnt = NoCounts

(* Every scales[] a successful ICM_IOCTL_GET_SCALES can deliver: the two
   switch statements and the probe-based correction of the driver, over
   the register contents and data-register contents of the query model,
   with the probe read succeeding or failing. *)
DriverOutputs ==
  {<<r.scales[0], r.scales[1]>> :
     r \in {IoctlGetScales(FALSE, OK, c[1], OK, c[2], c[3], c[4], NoScales) :
              c \in CfgBytes \X GyroCfgBytes \X BusResults \X Probes}}

(* Frames that hold the norm at 1 g, 2 g or 0.5 g of one of these scales. *)
ChainFrames == {1, 2, 3, 10}

ChainScripts == [f1 : ChainFrames, f2 : ChainFrames, sw : {0}, alt : {TRUE}]

(* The loop fed by the driver's own scales. *)
ChainInputs ==
  /\ app = AppStart
  /\ pin \in [script : ChainScripts, scales : DriverOutputs]
  /\ pev = NoEvent
  /\ pcnt = NoCounts

(* ------------------------------------------------------------------ *)
(* The LED utility led_control: the module's two globals in led = [fd,
   initialized], the position of a running led_control_blink in lblink,
   the last return of an API call in lout, and in llog the counts of
   open() calls, of descriptors they returned and of close() calls, the state of the LED as the successful
   ULEDIOC_SETLED commands left it, and the last command led_control_blink
   issued. *)

(* What open(LED_DEVICE_PATH, O_RDWR) returns, and errno when it failed. *)
LedOpenResults == {-1, 3}

(* What ioctl(g_led_fd, ULEDIOC_SETLED, ...) makes led_control_set return. *)
LedIoctlResults == {OK, -EIO}

(* Blink periods in ms, and the commands one blink call may issue. *)
LedPeriods == {0, 50, 120}
MaxBlinkCmds == 4
MaxLedCalls == 4

(* led_control_init(): [led, ret, opens] *)
LedInit_Reopen(l, o) ==
  IF o < 0
    THEN [led |-> [l EXCEPT !.fd = o], ret |-> -ENODEV, opens |-> 1]
    ELSE [led |-> [fd |-> o, initialized |-> TRUE], ret |-> OK, opens |-> 1]
LedInit(l, o) ==
  IF l.initialized
    THEN [led |-> l, ret |-> OK, opens |-> 0]
    ELSE IF o < 0
      THEN [led |-> [l EXCEPT !.fd = o], ret |-> -ENODEV, opens |-> 1]
      ELSE [led |-> [fd |-> o, initialized |-> TRUE], ret |-> OK,
            opens |-> 1]

(* led_control_deinit(): [led, ret, closes] *)
LedDeinit(l) ==
  [led |-> [fd |-> -1, initialized |-> FALSE], ret |-> OK,
   closes |-> IF l.fd >= 0 THEN 1 ELSE 0]

(* led_control_set(led_id, state) when open() would return o and the ioctl
   rc: [led, ret, opens, cmd]; cmd is the command handed to the ioctl,
   "none" when the call returned before it. *)
LedSet(l, o, state, rc) ==
  LET i == IF l.initialized THEN [led |-> l, ret |-> OK, opens |-> 0]
                            ELSE LedInit(l, o)
  IN IF i.ret < 0
       THEN [led |-> i.led, ret |-> i.ret, opens |-> i.opens, cmd |-> "none"]
       ELSE IF i.led.fd < 0
         THEN [led |-> i.led, ret |-> -ENODEV, opens |-> i.opens,
               cmd |-> "none"]
         ELSE [led |-> i.led, ret |-> rc, opens |-> i.opens,
               cmd |-> IF state THEN "ON" ELSE "OFF"]

(* The LED after a command that returned ret. *)
LedAfter(on, r) ==
  IF r.cmd = "none" \/ r.ret < 0 THEN on ELSE r.cmd = "ON"

(* Descriptors a call obtained from open(). *)
Got(r) == IF r.opens > 0 /\ r.led.fd >= 0 THEN 1 ELSE 0

NotBlinking == [pc |-> "idle", i |-> 0, period |-> 0, n |-> 0]

LedIdle ==
  /\ led = [fd |-> -1, initialized |-> FALSE]
  /\ lblink = NotBlinking
  /\ lout = [op |-> "none", ret |-> OK, started |-> FALSE, calls |-> 0]
  /\ llog = [opens |-> 0, fds |-> 0, closes |-> 0, on |-> FALSE,
             last |-> "none"]

LedReturn(op, r, started) ==
  lout' = [op |-> op, ret |-> r, started |-> started, calls |-> lout.calls + 1]

(* A call of led_control_init() *)
LedInitCall ==
  /\ lblink.pc = "idle" /\ lout.calls < MaxLedCalls
  /\ \E o \in LedOpenResults :
       LET r == LedInit(led, o) IN
       /\ led' = r.led
       /\ LedReturn("init", r.ret, FALSE)
       /\ llog' = [llog EXCEPT !.opens = @ + r.opens,
                               !.fds = @ + Got(r)]
  /\ UNCHANGED lblink

(* A call of led_control_deinit() *)
LedDeinitCall ==
  /\ lblink.pc = "idle" /\ lout.calls < MaxLedCalls
  /\ LET r == LedDeinit(led) IN
       /\ led' = r.led
       /\ LedReturn("deinit", r.ret, FALSE)
       /\ llog' = [llog EXCEPT !.closes = @ + r.closes]
  /\ UNCHANGED lblink

(* A call of led_control_set(led_id, state) *)
LedSetCall ==
  /\ lblink.pc = "idle" /\ lout.calls < MaxLedCalls
  /\ \E o \in LedOpenResults, state \in BOOLEAN, rc \in LedIoctlResults :
       LET r == LedSet(led, o, state, rc) IN
       /\ led' = r.led
       /\ LedReturn("set", r.ret, FALSE)
       /\ llog' = [llog EXCEPT !.opens = @ + r.opens,
                               !.fds = @ + Got(r),
                               !.on = LedAfter(@, r)]
  /\ UNCHANGED lblink

(* led_control_blink(led_id, period), lines 285-303: up to the loop *)
BlinkEnter ==
  /\ lblink.pc = "idle" /\ lout.calls < MaxLedCalls
  /\ \E o \in LedOpenResults, period \in LedPeriods :
       LET r == IF led.initialized THEN [led |-> led, ret |-> OK, opens |-> 0]
                                   ELSE LedInit(led, o)
       IN /\ led' = r.led
          /\ llog' = [llog EXCEPT !.opens = @ + r.opens,
                                  !.fds = @ + Got(r),
                                  !.last = "none"]
          /\ IF r.ret < 0
               THEN LedReturn("blink", r.ret, FALSE) /\ UNCHANGED lblink
               ELSE IF r.led.fd < 0
                 THEN LedReturn("blink", -ENODEV, FALSE) /\ UNCHANGED lblink
                 ELSE /\ lblink' = [pc |-> "top", i |-> 0, period |-> period,
                                    n |-> 0]
                      /\ UNCHANGED lout

(* One check_for_input() of the loop: at its top (line 306) or inside one
   of the two delays (lines 320-328, 338-346), followed by the usleep. *)
BlinkPoll ==
  /\ lblink.pc \in {"top", "wait_on", "wait_off"}
  /\ \E stop \in BOOLEAN :
       /\ ~stop => lblink.n < MaxBlinkCmds
       /\ lblink' =
            IF stop THEN [lblink EXCEPT !.pc = "stop"]
            ELSE IF lblink.pc = "top" THEN [lblink EXCEPT !.pc = "on"]
            ELSE IF lblink.i + 50 < lblink.period
              THEN [lblink EXCEPT !.i = @ + 50]
              ELSE [lblink EXCEPT !.i = 0,
                                  !.pc = IF lblink.pc = "wait_on"
                                           THEN "off" ELSE "top"]
  /\ UNCHANGED <<led, lout, llog>>

(* led_control_set(led_id, true) at line 313, led_control_set(led_id,
   false) at line 331, each with the return on failure. *)
BlinkSet ==
  /\ lblink.pc \in {"on", "off"}
  /\ \E o \in LedOpenResults, rc \in LedIoctlResults :
       LET r == LedSet(led, o, lblink.pc = "on", rc) IN
       /\ led' = r.led
       /\ llog' = [llog EXCEPT !.opens = @ + r.opens,
                               !.fds = @ + Got(r),
                               !.on = LedAfter(@, r),
                               !.last = IF r.cmd = "none" THEN @ ELSE r.cmd]
       /\ IF r.ret < 0
            THEN LedReturn("blink", r.ret, TRUE) /\ lblink' = NotBlinking
            ELSE /\ lblink' =
                      [lblink EXCEPT
                         !.n = @ + 1,
                         !.i = 0,
                         !.pc = IF lblink.period > 0
                                  THEN (IF lblink.pc = "on" THEN "wait_on"
                                                            ELSE "wait_off")
                                  ELSE (IF lblink.pc = "on" THEN "off"
                                                            ELSE "top")]
                 /\ UNCHANGED lout

(* stop_blink, lines 349-354 *)
BlinkStop ==
  /\ lblink.pc = "stop"
  /\ \E o \in LedOpenResults, rc \in LedIoctlResults :
       LET r == LedSet(led, o, FALSE, rc) IN
       /\ led' = r.led
       /\ llog' = [llog EXCEPT !.opens = @ + r.opens,
                               !.fds = @ + Got(r),
                               !.on = LedAfter(@, r),
                               !.last = IF r.cmd = "none" THEN @ ELSE r.cmd]
       /\ LedReturn("blink", OK, TRUE)
       /\ lblink' = NotBlinking

(* The handle after a successful icm42688_register at the primary address. *)
BringupReady ==
  /\ pc = "done"
  /\ cfg = [valid |-> TRUE, addr |-> ADDR_PRIMARY]
  /\ heap = "live"
  /\ lockst = "init"
  /\ i2c_addr = ADDR_PRIMARY
  /\ tries = 0
  /\ id = ICM_WHOAMI_EXPECTED
  /\ cfgstep = Len(ConfigWrites) + 1
  /\ ret = OK
  /\ registered = TRUE
  /\ wlog = <<[addr |-> ADDR_PRIMARY, reg |-> ICM_REG_DEVICE_CONFIG, val |-> 1,
               rc |-> OK]>>
            \o [k \in 1..Len(ConfigWrites) |->
                  [addr |-> ADDR_PRIMARY, reg |-> ConfigWrites[k].reg,
                   val |-> ConfigWrites[k].val, rc |-> OK]]
  /\ idGood = {ADDR_PRIMARY}
  /\ idreads = <<1>>
  /\ phases = <<"Reset", "IdentityCheck", "Configure", "Register", "Ready">>
  /\ nfree = 0
  /\ ndestroy = 0
  /\ nregcalls = 1

(* The handle after a successful icm42688_register called with
   cfg->addr = c whose identity check succeeded at address a: at c on the
   first read, or at the alternate address after WHOAMI_RETRIES failed reads
   at c. *)
ReadyAt(c, a) ==
  /\ pc = "done"
  /\ cfg = [valid |-> TRUE, addr |-> c]
  /\ heap = "live"
  /\ lockst = "init"
  /\ i2c_addr = a
  /\ tries = 0
  /\ id = ICM_WHOAMI_EXPECTED
  /\ cfgstep = Len(ConfigWrites) + 1
  /\ ret = OK
  /\ registered = TRUE
  /\ wlog = (IF a = c
               THEN <<>>
               ELSE <<[addr |-> c, reg |-> ICM_REG_DEVICE_CONFIG, val |-> 1,
                       rc |-> OK]>>)
            \o <<[addr |-> a, reg |-> ICM_REG_DEVICE_CONFIG, val |-> 1,
                  rc |-> OK]>>
            \o [k \in 1..Len(ConfigWrites) |->
                  [addr |-> a, reg |-> ConfigWrites[k].reg,
                   val |-> ConfigWrites[k].val, rc |-> OK]]
  /\ idGood = {a}
  /\ idreads = IF a = c THEN <<1>> ELSE <<WHOAMI_RETRIES, 1>>
  /\ phases = IF a = c
                THEN <<"Reset", "IdentityCheck", "Configure", "Register",
                       "Ready">>
                ELSE <<"Reset", "IdentityCheck", "AddressFallback", "Reset",
                       "IdentityCheck", "Configure", "Register", "Ready">>
  /\ nfree = 0
  /\ ndestroy = 0
  /\ nregcalls = 1

(* ------------------------------------------------------------------ *)
(* Specifications                                                      *)
(* ------------------------------------------------------------------ *)
XIdle == ScalesIdle /\ TransportIdle /\ NotUnregistered /\ PipeIdle /\ LedIdle

Init == BringupInit /\ FetchIdle /\ CtlIdle /\ XIdle

Next ==
  \/ RegisterBadConfig /\ UNCHANGED <<fvars, cvars, xvars>>
  \/ RegisterNoMemory /\ UNCHANGED <<fvars, cvars, xvars>>
  \/ RegisterAlloc /\ UNCHANGED <<fvars, cvars, xvars>>
  \/ Reset /\ UNCHANGED <<fvars, cvars, xvars>>
  \/ WhoamiRead /\ UNCHANGED <<fvars, cvars, xvars>>
  \/ ConfigureWrite /\ UNCHANGED <<fvars, cvars, xvars>>
  \/ RegisterDriver /\ UNCHANGED <<fvars, cvars, xvars>>

Spec == Init /\ [][Next]_vars

(* The frame decoder called on its own, on every buffer and length. *)
InitDecode == BringupReady /\ DecodeInputs /\ CtlIdle /\ XIdle

NextDecode == ParseCall /\ UNCHANGED <<bvars, cvars, xvars>>

SpecDecode == InitDecode /\ [][NextDecode]_vars

(* One caller fetching samples through read() and ioctl(), for every frame
   at the data port and every content of the user's buffer. *)
InitFetch == BringupReady /\ FetchInputs /\ CtlIdle /\ XIdle

NextFetch ==
  \/ ReadDev /\ UNCHANGED <<bvars, cvars, xvars>>
  \/ IoctlSample /\ UNCHANGED <<bvars, cvars, xvars>>

SpecFetch == InitFetch /\ [][NextFetch]_vars

(* Several tasks calling the file operations of one registered handle; a
   task may be preempted between any two bus transactions. *)
InitCtl == BringupReady /\ FetchIdle /\ CtlIdle /\ XIdle

NextCtl ==
  \E c \in Callers :
    \/ OpenCloseEnter(c) /\ UNCHANGED <<bvars, fvars, xvars>>
    \/ OpenCloseBody(c) /\ UNCHANGED <<bvars, fvars, xvars>>
    \/ WriteSeek(c) /\ UNCHANGED <<bvars, fvars, xvars>>
    \/ ReadEnter(c) /\ UNCHANGED <<bvars, fvars, xvars>>
    \/ IoctlEnter(c) /\ UNCHANGED <<bvars, fvars, xvars>>
    \/ FifoRead(c) /\ UNCHANGED <<bvars, fvars, xvars>>
    \/ ScalesAccelRead(c) /\ UNCHANGED <<bvars, fvars, xvars>>
    \/ ScalesGyroRead(c) /\ UNCHANGED <<bvars, fvars, xvars>>
    \/ ScalesProbeRead(c) /\ UNCHANGED <<bvars, fvars, xvars>>
    \/ RegRead(c) /\ UNCHANGED <<bvars, fvars, xvars>>

SpecCtl == InitCtl /\ [][NextCtl]_vars

(* One call of read() or ioctl() on a registered handle, for every content
   of the two configuration registers and of the data registers. *)
InitQuery ==
  /\ BringupReady /\ FetchIdle /\ CtlIdle
  /\ ScalesInputs /\ TransportIdle /\ NotUnregistered /\ PipeIdle /\ LedIdle

NextQuery ==
  \/ lastop = "none" /\ ReadDev
       /\ UNCHANGED <<bvars, cvars, svars, tvars, unreg, pvars, lvars>>
  \/ lastop = "none" /\ IoctlSample
       /\ UNCHANGED <<bvars, cvars, svars, tvars, unreg, pvars, lvars>>
  \/ lastop = "none" /\ IoctlScales
       /\ UNCHANGED <<bvars, cvars, tvars, unreg, pvars, lvars>>
  \/ lastop = "none" /\ IoctlReg
       /\ UNCHANGED <<bvars, cvars, tvars, unreg, pvars, lvars>>
  \/ lastop = "none" /\ IoctlOther
       /\ UNCHANGED <<bvars, cvars, tvars, unreg, pvars, lvars>>

SpecQuery == InitQuery /\ [][NextQuery]_vars

(* The two transport functions called on their own. *)
InitTransport ==
  /\ BringupReady /\ FetchIdle /\ CtlIdle
  /\ ScalesIdle /\ TransportInputs /\ NotUnregistered /\ PipeIdle /\ LedIdle

NextTransport ==
  TransportCall /\ UNCHANGED <<bvars, fvars, cvars, svars, unreg, pvars, lvars>>

SpecTransport == InitTransport /\ [][NextTransport]_vars

(* The life of a registered handle: the file operations of the one
   consumer on the node, at either address and with or without the address
   fallback, then unregistration. *)
InitLife ==
  /\ \E c \in CfgAddrs : \E a \in {c, AltAddr(c)} : ReadyAt(c, a)
  /\ FetchIdle /\ CtlIdle /\ XIdle

NextLife ==
  \/ registered /\ OpenCloseEnter(Consumer) /\ UNCHANGED <<bvars, fvars, xvars>>
  \/ OpenCloseBody(Consumer) /\ UNCHANGED <<bvars, fvars, xvars>>
  \/ registered /\ WriteSeek(Consumer) /\ UNCHANGED <<bvars, fvars, xvars>>
  \/ registered /\ ReadEnter(Consumer) /\ UNCHANGED <<bvars, fvars, xvars>>
  \/ registered /\ IoctlEnter(Consumer) /\ UNCHANGED <<bvars, fvars, xvars>>
  \/ FifoRead(Consumer) /\ UNCHANGED <<bvars, fvars, xvars>>
  \/ ScalesAccelRead(Consumer) /\ UNCHANGED <<bvars, fvars, xvars>>
  \/ ScalesGyroRead(Consumer) /\ UNCHANGED <<bvars, fvars, xvars>>
  \/ ScalesProbeRead(Consumer) /\ UNCHANGED <<bvars, fvars, xvars>>
  \/ RegRead(Consumer) /\ UNCHANGED <<bvars, fvars, xvars>>
  \/ Unregister /\ UNCHANGED <<fvars, cvars, svars, tvars, pvars, lvars>>

SpecLife == InitLife /\ [][NextLife]_vars

(* The application's loop on an open device node, for every stream of
   samples, every scale pair of the driver, and failures of read() and of
   the scales ioctl at any pass. *)
InitPipe ==
  /\ BringupReady /\ FetchIdle /\ CtlIdle
  /\ ScalesIdle /\ TransportIdle /\ NotUnregistered /\ PipeInputs /\ LedIdle

NextPipe ==
  PipeLoop /\ UNCHANGED <<bvars, fvars, cvars, svars, tvars, unreg, lvars>>

SpecPipe == InitPipe /\ [][NextPipe]_vars

(* The same loop on a handle whose ICM_IOCTL_GET_SCALES delivers whatever
   the driver computes for some register and data-register contents. *)
InitChain ==
  /\ BringupReady /\ FetchIdle /\ CtlIdle
  /\ ScalesIdle /\ TransportIdle /\ NotUnregistered /\ ChainInputs /\ LedIdle

SpecChain == InitChain /\ [][NextPipe]_vars

(* Any sequence of calls of the LED utility's four functions, with every
   outcome of open() and of the LED ioctl and Ctrl+C at any poll. *)
InitLed ==
  /\ BringupReady /\ FetchIdle /\ CtlIdle
  /\ ScalesIdle /\ TransportIdle /\ NotUnregistered /\ PipeIdle /\ LedIdle

NextLed ==
  \/ LedInitCall /\ UNCHANGED <<bvars, fvars, cvars, svars, tvars, unreg, pvars>>
  \/ LedDeinitCall /\ UNCHANGED <<bvars, fvars, cvars, svars, tvars, unreg, pvars>>
  \/ LedSetCall /\ UNCHANGED <<bvars, fvars, cvars, svars, tvars, unreg, pvars>>
  \/ BlinkEnter /\ UNCHANGED <<bvars, fvars, cvars, svars, tvars, unreg, pvars>>
  \/ BlinkPoll /\ UNCHANGED <<bvars, fvars, cvars, svars, tvars, unreg, pvars>>
  \/ BlinkSet /\ UNCHANGED <<bvars, fvars, cvars, svars, tvars, unreg, pvars>>
  \/ BlinkStop /\ UNCHANGED <<bvars, fvars, cvars, svars, tvars, unreg, pvars>>

SpecLed == InitLed /\ [][NextLed]_vars

(* ------------------------------------------------------------------ *)
(* Bring-up properties                                                 *)
(* ------------------------------------------------------------------ *)
Occurrences(seq, x) == Cardinality({k \in 1..Len(seq) : seq[k] = x})

WritesTo(regs) == {k \in 1..Len(wlog) : wlog[k].reg \in regs}

CheckedConfigRegs == {ICM_REG_PWR_MGMT0, ICM_REG_GYRO_CONFIG0, ICM_REG_ACCEL_CONFIG0}

FifoConfigRegs == {ICM_REG_FIFO_CONFIG_INIT, ICM_REG_FIFO_CONFIGURATION}

FallbackTaken == Occurrences(phases, "AddressFallback") > 0

(* C1: no configuration write is on the bus before a WHO_AM_I read at the
   handle's current address has returned 0x47, and the phases follow each
   other as Reset, IdentityCheck, Configure, node registration. *)
C1_IdentityBeforeConfigure ==
  /\ \A k \in WritesTo(ConfigRegs) :
       wlog[k].addr = i2c_addr /\ i2c_addr \in idGood
  /\ \A k \in 1..Len(phases) :
       /\ phases[k] = "Reset" =>
            k = 1 \/ phases[k - 1] = "AddressFallback"
       /\ phases[k] = "IdentityCheck" => k > 1 /\ phases[k - 1] = "Reset"
       /\ phases[k] = "Configure" => k > 1 /\ phases[k - 1] = "IdentityCheck"
       /\ phases[k] = "Register" => k > 1 /\ phases[k - 1] = "Configure"
       /\ phases[k] = "Ready" => k > 1 /\ phases[k - 1] = "Register"
  /\ nregcalls > 0 => WritesTo(ConfigRegs) # {}

C1_Witness ==
  /\ registered
  /\ Cardinality(WritesTo(ConfigRegs)) = Len(ConfigWrites)
  /\ FallbackTaken

(* C2: the address fallback happens at most once, only after a whole failed
   WHO_AM_I round; it moves the handle to the other one of 0x68/0x69 and
   restarts with a second soft reset and a second round; there is never a
   third address, reset or round. *)
C2_FallbackOnce ==
  /\ Occurrences(phases, "AddressFallback") <= 1
  /\ Occurrences(phases, "Reset") <= 2
  /\ Len(idreads) <= 2
  /\ Cardinality({wlog[k].addr : k \in 1..Len(wlog)}) <= 2
  /\ (heap # "none" /\ ~FallbackTaken) => i2c_addr = cfg.addr
  /\ FallbackTaken =>
       /\ idreads[1] = WHOAMI_RETRIES
       /\ cfg.addr \notin idGood
       /\ i2c_addr \in {ADDR_PRIMARY, ADDR_ALTERNATE}
       /\ i2c_addr # cfg.addr
       /\ \A k \in 1..Len(phases) :
            phases[k] = "AddressFallback" =>
              /\ k > 1 /\ phases[k - 1] = "IdentityCheck"
              /\ IF k < Len(phases) THEN phases[k + 1] = "Reset"
                                    ELSE pc = "reset2"
  /\ Len(idreads) = 2 =>
       /\ FallbackTaken
       /\ Cardinality(WritesTo({ICM_REG_DEVICE_CONFIG})) = 2
       /\ wlog[2].reg = ICM_REG_DEVICE_CONFIG
       /\ wlog[2].addr = i2c_addr

C2_Witness ==
  /\ FallbackTaken
  /\ Len(idreads) = 2
  /\ pc = "done"

BothRoundsFailed ==
  /\ Len(idreads) = 2
  /\ idreads[1] = WHOAMI_RETRIES
  /\ idreads[2] = WHOAMI_RETRIES
  /\ idGood = {}
  /\ pc = "done"

(* C3: when the WHO_AM_I round fails at the configured and at the alternate
   address, icm42688_register returns -ENODEV, register_driver was never
   called, and the lock is destroyed and the handle freed. *)
C3_NoDeviceTearsDown ==
  BothRoundsFailed =>
    /\ ret = -ENODEV
    /\ nregcalls = 0
    /\ ~registered
    /\ lockst = "destroyed"
    /\ heap = "freed"
    /\ WritesTo(ConfigRegs) = {}

C3_Witness == BothRoundsFailed /\ ret = -ENODEV

(* C4: one WHO_AM_I round reads at most 50 times, gives up only after the
   50th read, and ends in success exactly at the first read that completes
   and returns 0x47; a match on the 50th read of the first round goes on to
   Configure at the configured address after a single reset. *)
C4_IdentityRound ==
  /\ \A r \in 1..Len(idreads) : idreads[r] <= WHOAMI_RETRIES
  /\ pc \in {"whoami1", "whoami2"} => i2c_addr \notin idGood
  /\ pc \in {"configure", "regdrv"} => i2c_addr \in idGood
  /\ (FallbackTaken \/ pc = "reset2") => idreads[1] = WHOAMI_RETRIES
  /\ (Len(idreads) = 2 /\ pc = "done" /\ idGood = {} /\ wlog[Len(wlog)].rc = OK)
        => idreads[2] = WHOAMI_RETRIES
  /\ (Len(idreads) = 1 /\ idreads[1] = WHOAMI_RETRIES /\ idGood # {}) =>
       /\ ~FallbackTaken
       /\ i2c_addr = cfg.addr
       /\ Cardinality(WritesTo({ICM_REG_DEVICE_CONFIG})) = 1
       /\ pc \in {"configure", "regdrv", "done"}
       /\ pc = "done" => WritesTo(ConfigRegs) # {}

C4_Witness ==
  /\ Len(idreads) = 1
  /\ idreads[1] = WHOAMI_RETRIES
  /\ idGood = {cfg.addr}
  /\ pc = "configure"
  /\ cfgstep = 1

(* C5 as stated: a failure of any Configure write aborts bring-up with that
   error, no later write is issued, no node is registered, and no Configure
   write is issued twice. *)
C5_AnyConfigFailureAborts ==
  /\ \A k \in WritesTo(ConfigRegs) :
       wlog[k].rc < 0 =>
         /\ k = Len(wlog)
         /\ pc = "done"
         /\ ret = wlog[k].rc
         /\ ~registered
         /\ nregcalls = 0
  /\ \A r \in ConfigRegs : Cardinality(WritesTo({r})) <= 1

(* C5 amended: a failure of the power-mode, gyro or accel write aborts
   bring-up with that error, with no later write and no registration; the
   result of the FIFO-enable and FIFO-source writes is discarded and
   bring-up goes on to register_driver; no Configure write is issued twice. *)
C5_CheckedConfigFailureAborts ==
  /\ \A k \in WritesTo(CheckedConfigRegs) :
       wlog[k].rc < 0 =>
         /\ k = Len(wlog)
         /\ pc = "done"
         /\ ret = wlog[k].rc
         /\ ~registered
         /\ nregcalls = 0
  /\ \A k \in WritesTo(FifoConfigRegs) :
       wlog[k].rc < 0 =>
         /\ pc \in {"configure", "regdrv", "done"}
         /\ pc = "done" => nregcalls = 1
  /\ \A r \in ConfigRegs : Cardinality(WritesTo({r})) <= 1

C5_Witness ==
  /\ registered
  /\ \E k \in WritesTo(FifoConfigRegs) : wlog[k].rc < 0

(* C6: the node is registered exactly when the call returned OK, which
   needs a successful reset, identity match, the checked Configure writes
   and register_driver; every failing return after the handle was
   allocated has destroyed the lock once and freed the handle once. *)
C6_RegisteredIffAllSucceeded ==
  /\ registered <=> (pc = "done" /\ ret = OK)
  /\ registered =>
       /\ heap = "live" /\ lockst = "init"
       /\ nfree = 0 /\ ndestroy = 0
       /\ nregcalls = 1
       /\ i2c_addr \in idGood
       /\ \A k \in 1..Len(wlog) :
            wlog[k].rc < 0 => wlog[k].reg \in FifoConfigRegs
       /\ \A r \in ConfigRegs : Cardinality(WritesTo({r})) = 1
  /\ pc # "done" => ret = "none" /\ nfree = 0 /\ ndestroy = 0
  /\ (pc = "done" /\ ~registered) =>
       /\ ret \in Int /\ ret < 0
       /\ IF heap = "none"
            THEN nfree = 0 /\ ndestroy = 0 /\ lockst = "none" /\ wlog = <<>>
            ELSE nfree = 1 /\ ndestroy = 1 /\ heap = "freed"
                 /\ lockst = "destroyed"

C6_Witness ==
  /\ pc = "done"
  /\ nregcalls = 1
  /\ ~registered
  /\ nfree = 1 /\ ndestroy = 1

(* ------------------------------------------------------------------ *)
(* Frame decoder and sample path properties                            *)
(* ------------------------------------------------------------------ *)
(* The two's complement number written big-endian in bytes hi, lo. *)
SignedBE(hi, lo) ==
  IF hi >= 128 THEN (hi - 256) * 256 + lo ELSE hi * 256 + lo

(* w shifted right by n bits keeping the sign: the floor of w / 2^n. *)
FloorShift(w, n) ==
  CHOOSE q \in -32768..32767 : q * (2 ^ n) <= w /\ w < (q + 1) * (2 ^ n)

(* The sample the frame layout prescribes for bytes 1..12 of b. *)
LayoutSample(b) ==
  [accel_x |-> FloorShift(SignedBE(b[1], b[2]), 1),
   accel_y |-> FloorShift(SignedBE(b[3], b[4]), 1),
   accel_z |-> FloorShift(SignedBE(b[5], b[6]), 1),
   gyro_x  |-> SignedBE(b[7], b[8]),
   gyro_y  |-> SignedBE(b[9], b[10]),
   gyro_z  |-> SignedBE(b[11], b[12])]

FetchSucceeded ==
  \/ lastop = "read" /\ uret = SAMPLE_SIZE
  \/ lastop = "ioctl_sample" /\ uret = OK /\ nbus = 1

(* C7: for a 16-byte frame icm_parse_fifo_sample returns the sample fixed
   by bytes 1..12 alone: accel axes are the signed big-endian words shifted
   right by one with the sign kept, gyro axes the signed big-endian words;
   bytes 0 and 13..15 play no part. *)
C7_DecoderLayout ==
  (lastop = "parse" /\ flen >= ICM_FIFO_READ_LEN) =>
    /\ pret = OK
    /\ out = LayoutSample(fifo_buf)

C7_Witness ==
  /\ lastop = "parse"
  /\ flen = ICM_FIFO_READ_LEN
  /\ fifo_buf[0] # 0
  /\ fifo_buf[1] >= 128 /\ fifo_buf[2] % 2 = 1
  /\ out.accel_x < 0
  /\ out.gyro_x < 0

(* C8: the sample a successful read() or ICM_IOCTL_GET_SAMPLE delivers is
   the frame decoder's result for the 16 bytes read from the data port:
   accel words shifted right by exactly one bit, gyro words unshifted. *)
C8_FetchDeliversDecodedFrame ==
  FetchSucceeded =>
    /\ ubuf = ParseFifoSample(fifo_buf, ICM_FIFO_READ_LEN, ZeroSample).out
    /\ ubuf = LayoutSample(fifo_buf)

(* C9: for every len below 16 icm_parse_fifo_sample returns -EINVAL and
   writes no field of the caller's sample; from 16 on it returns OK. *)
C9_ShortFrameRejected ==
  [][(lastop' = "parse" /\ lastop = "none") =>
       IF flen < ICM_FIFO_READ_LEN
         THEN pret' = -EINVAL /\ out' = out
         ELSE pret' = OK]_vars

C9_Witness ==
  /\ lastop = "parse"
  /\ flen = ICM_FIFO_READ_LEN - 1
  /\ pret = -EINVAL
  /\ out = [f \in SampleFields |-> -1]

(* ------------------------------------------------------------------ *)
(* Concurrency properties                                              *)
(* ------------------------------------------------------------------ *)
(* Positions from which a call still has a bus transaction to issue. *)
BusPositions == {"fifo", "scales_accel", "scales_gyro", "scales_probe", "reg"}

(* Positions between two bus transactions of one call. *)
MidSequence == {"scales_gyro", "scales_probe"}

(* C10, the lock: a call with a bus transaction ahead of it holds
   dev->lock. *)
C10_BusCallsHoldLock ==
  \A c \in Callers : cpc[c] \in BusPositions => lock = c

(* C10: the bus transactions of two calls on one handle never interleave;
   while a caller is between two register reads of ICM_IOCTL_GET_SCALES the
   last transaction on the bus is its own. *)
C10_NoInterleavedTransactions ==
  \A c \in Callers : cpc[c] \in MidSequence => lasttx.who = c

(* ------------------------------------------------------------------ *)
(* Error propagation of the sample and scale queries                   *)
(* ------------------------------------------------------------------ *)
(* C11: when the bus read issued by read() or ICM_IOCTL_GET_SAMPLE fails,
   the call returns a transport error that differs from -EAGAIN, the code
   it returns for an invalid or empty frame, and from -EINVAL. *)
C11_BusFailureDistinguished ==
  (lastop \in {"read", "ioctl_sample"} /\ nbus = 1 /\ busrc < 0) =>
    /\ uret < 0
    /\ uret \notin {-EAGAIN, -EINVAL}

(* The register reads of the last call that failed. *)
FailedReads == {k \in 1..Len(sbus) : sbus[k].rc < 0}

(* C12: if any register read of ICM_IOCTL_GET_SCALES fails (ACCEL_CONFIG0,
   GYRO_CONFIG0 or the 12-byte probe), the call returns the error of a
   failed read and not OK. *)
C12_ScalesReadFailurePropagates ==
  (lastop = "ioctl_scales" /\ FailedReads # {}) =>
    /\ uret < 0
    /\ \E k \in FailedReads : uret = sbus[k].rc

(* ------------------------------------------------------------------ *)
(* Scale table and sanity correction                                   *)
(* ------------------------------------------------------------------ *)
(* Bit k of the byte v. *)
Bit(v, k) == (v \div (2 ^ k)) % 2

(* The selector held in bits [5:4] of v. *)
Selector(v) == 2 * Bit(v, 5) + Bit(v, 4)

(* Counts per g and ten times counts per degree/s, by selector 0..3. *)
AccelTable == <<16384, 8192, 16384, 2048>>

GyroTable == <<164, 328, 656, 1310>>

(* The call went past both configuration reads. *)
ScalesDerived == lastop = "ioctl_scales" /\ Len(sbus) = 3

(* C13: before the sanity correction scales[] depends on bits [5:4] of the
   two configuration bytes only: accel 16384, 8192, 16384, 2048 and gyro
   164, 328, 656, 1310 for selectors 0..3; accel selectors 0 and 2 give the
   same constant. *)
C13_ScaleTable ==
  ScalesDerived =>
    /\ tscales[0] = AccelTable[Selector(creg) + 1]
    /\ tscales[1] = GyroTable[Selector(greg) + 1]
    /\ Selector(creg) \in {0, 2} => tscales[0] = AccelTable[1]

C13_Witness ==
  /\ ScalesDerived
  /\ Selector(creg) = 2 /\ creg % 16 # 0 /\ creg >= 64
  /\ Selector(greg) = 3 /\ greg % 16 # 0
  /\ tscales[0] = 16384
  /\ tscales[1] = 1310

(* C14 as stated: a successful ICM_IOCTL_GET_SCALES returns positive
   scales with accel in {16384, 8192, 2048} and gyro in {164, 328, 656,
   1310}. *)
C14_ScalesInEnumeration ==
  (lastop = "ioctl_scales" /\ uret = OK) =>
    /\ scales[0] > 0 /\ scales[1] > 0
    /\ scales[0] \in {AccelTable[k] : k \in 1..4}
    /\ scales[1] \in {GyroTable[k] : k \in 1..4}

(* C14: a successful ICM_IOCTL_GET_SCALES returns positive scales; gyro is
   one of 164, 328, 656, 1310 and accel is a table value 16384, 8192, 2048,
   its double or its half. *)
C14_ScalesInAdjustedEnumeration ==
  (lastop = "ioctl_scales" /\ uret = OK) =>
    /\ scales[0] > 0 /\ scales[1] > 0
    /\ scales[0] \in UNION {{AccelTable[k], 2 * AccelTable[k],
                               AccelTable[k] \div 2} : k \in 1..4}
    /\ scales[1] \in {GyroTable[k] : k \in 1..4}

C14_Witness ==
  /\ lastop = "ioctl_scales" /\ uret = OK
  /\ scales[0] = 2 * AccelTable[1]
  /\ scales[0] \notin {AccelTable[k] : k \in 1..4}

(* The accel counts of the 12 data registers b: signed big-endian words,
   halved with the sign kept. *)
ProbeAccel(b) ==
  <<FloorShift(SignedBE(b[0], b[1]), 1), FloorShift(SignedBE(b[2], b[3]), 1),
    FloorShift(SignedBE(b[4], b[5]), 1)>>

(* lo/100 < n < hi/100 for the norm n of the accel counts a divided by s. *)
NormWithin(a, s, lo, hi) ==
  LET q == a[1] * a[1] + a[2] * a[2] + a[3] * a[3]
  IN NormAbove(q, s, lo) /\ NormBelow(q, s, hi)

(* The accel scale the sanity correction prescribes for table scale s and
   data registers b. *)
Corrected(s, b) ==
  LET a == ProbeAccel(b) IN
  CASE NormWithin(a, s, 170, 220) /\ s < 65536 -> 2 * s
    [] NormWithin(a, s, 45, 65) /\ s > 512 -> s \div 2
    [] OTHER -> s

ProbeReads == {k \in 1..Len(sbus) : sbus[k].reg = ICM_REG_ACCEL_DATA_X1}

(* C15: a successful ICM_IOCTL_GET_SCALES reads the data registers exactly
   once; with s the table accel scale and n the norm of the probe's accel
   counts over s it returns 2s if 1.7 < n < 2.2 and s < 65536, s/2 if
   0.45 < n < 0.65 and s > 512, and s otherwise; the gyro scale is the
   table value. *)
C15_OneProbeOneAdjustment ==
  (lastop = "ioctl_scales" /\ uret = OK) =>
    /\ Cardinality(ProbeReads) = 1
    /\ \A k \in ProbeReads : sbus[k].len = ICM_BURST_READ_LEN
    /\ scales[1] = tscales[1]
    /\ scales[0] \in {tscales[0], 2 * tscales[0], tscales[0] \div 2}
    /\ (\A k \in ProbeReads : sbus[k].rc = OK) =>
         scales[0] = Corrected(tscales[0], raw)

C15_Witness ==
  /\ lastop = "ioctl_scales" /\ uret = OK
  /\ \A k \in ProbeReads : sbus[k].rc = OK
  /\ tscales[0] = 8192
  /\ scales[0] = 4096
  /\ raw[0] # 0

(* ------------------------------------------------------------------ *)
(* Argument checks                                                     *)
(* ------------------------------------------------------------------ *)
(* C16: read() with a buffer shorter than 12 bytes and every ioctl command
   of the driver called with a null argument return -EINVAL, issue no bus
   transaction and leave the user's memory and the handle as they were. A
   command the driver does not know is no operation of the interface: it
   returns -ENOTTY whatever its argument. *)
C16_BadArgumentRejectedFirst ==
  [][(/\ lastop = "none"
      /\ lastop' \notin {"none", "ioctl_other"}
      /\ IF lastop' = "read" THEN uarg'.len < SAMPLE_SIZE ELSE uarg'.null)
       => /\ uret' = -EINVAL
          /\ nbus' = 0
          /\ sbus' = <<>>
          /\ UNCHANGED <<ubuf, scales, uval, bvars, lock, bufpos, lasttx>>]_vars

C16_Witness ==
  /\ lastop = "ioctl_scales"
  /\ uarg.null
  /\ uret = -EINVAL
  /\ nbus = 0
  /\ scales = [i \in 0..1 |-> 7]

(* ------------------------------------------------------------------ *)
(* The registered handle                                               *)
(* ------------------------------------------------------------------ *)
(* C17: on a registered handle dev->i2c_addr stays the address at which
   the identity check succeeded, and every bus transaction of a file
   operation is addressed to it. *)
C17_AddressFixedAfterReady ==
  /\ idGood = {i2c_addr}
  /\ lasttx.who # 0 => lasttx.addr = i2c_addr

C17_Witness ==
  /\ lasttx.who = Consumer
  /\ cret.who = Consumer
  /\ cfg.addr = ADDR_PRIMARY
  /\ i2c_addr = ADDR_ALTERNATE
  /\ lasttx.addr = ADDR_ALTERNATE

(* C18: on a registered handle no file operation issues a register write:
   every bus transaction of a file operation is a read, and the writes on
   the bus remain those of bring-up (one reset per identity round and the
   configuration writes). *)
C18_NoWriteAfterReady ==
  /\ lasttx.who # 0 => lasttx.kind = "read"
  /\ Len(wlog) = Len(idreads) + Len(ConfigWrites)

C18_Witness ==
  /\ lasttx.who = Consumer
  /\ lasttx.reg = ICM_REG_ACCEL_DATA_X1
  /\ lasttx.kind = "read"
  /\ cret.who = Consumer
  /\ cpc[Consumer] = "idle"

(* C19: after icm42688_unregister succeeded the handle's lock is destroyed
   and its memory released. *)
C19_UnregisterDestroysHandle ==
  (unreg.called /\ unreg.ret = OK) =>
    /\ heap = "freed"
    /\ lockst = "destroyed"

(* ------------------------------------------------------------------ *)
(* Register transport properties                                       *)
(* ------------------------------------------------------------------ *)
(* C20: icm_i2c_read and icm_i2c_write1 each call I2C_TRANSFER exactly
   once, a read with the no-stop write of the register address followed by
   the data read, a write with the two bytes [address, value]; they return
   a negative result unchanged and OK for any other. *)
C20_OneTransferVerbatim ==
  (tcall.op # "none" /\ txlog # <<>>) =>
    /\ Len(txlog) = 1
    /\ tret = IF traw < 0 THEN traw ELSE OK
    /\ IF tcall.op = "read"
         THEN /\ Len(txlog[1].msgs) = 2 /\ txlog[1].count = 2
              /\ txlog[1].msgs[1].flags = "I2C_M_NOSTOP"
              /\ txlog[1].msgs[1].buffer = <<tcall.reg>>
              /\ txlog[1].msgs[2].flags = "I2C_M_READ"
              /\ txlog[1].msgs[2].length = tcall.len
         ELSE /\ Len(txlog[1].msgs) = 1 /\ txlog[1].count = 1
              /\ txlog[1].msgs[1].flags = "0"
              /\ txlog[1].msgs[1].buffer = <<tcall.reg, tcall.val>>

C20_Witness ==
  /\ tcall.op = "read"
  /\ tcall.len = ICM_FIFO_READ_LEN
  /\ txlog # <<>>
  /\ traw = -ETIMEDOUT
  /\ tret = -ETIMEDOUT

(* ------------------------------------------------------------------ *)
(* C21: every call of read() or ioctl(ICM_IOCTL_GET_SAMPLE) issues exactly
   one bus transaction, a 16-byte read of the streaming data port
   ICM_REG_FIFO_DATA, whether the call succeeds or fails, and never a read
   of the direct data registers. *)
FetchCalled == lastop \in {"read", "ioctl_sample"}

FetchRejected ==
  /\ FetchCalled
  /\ uarg.null \/ (lastop = "read" /\ uarg.len < SAMPLE_SIZE)

OneFifoRead ==
  /\ Len(fbus) = 1
  /\ nbus = 1
  /\ fbus[1].reg = ICM_REG_FIFO_DATA
  /\ fbus[1].len = ICM_FIFO_READ_LEN
  /\ fbus[1].rc = busrc

C21_ExactlyOneTransaction == FetchCalled => OneFifoRead

(* C21 as the code has it: a call that passes its argument check issues
   exactly one bus transaction, the 16-byte read of ICM_REG_FIFO_DATA,
   whether that read succeeds or fails; a call rejected by the argument
   check issues none; no call reads the direct data registers. *)
C21_AtMostOneFifoRead ==
  FetchCalled =>
    /\ IF FetchRejected THEN fbus = <<>> /\ nbus = 0 ELSE OneFifoRead
    /\ \A k \in 1..Len(fbus) : fbus[k].reg # ICM_REG_ACCEL_DATA_X1

C21_Witness ==
  /\ FetchCalled
  /\ ~FetchRejected
  /\ busrc < 0
  /\ uret = -EAGAIN
  /\ Len(fbus) = 1

(* ------------------------------------------------------------------ *)
(* C22: the loop discards exactly one frame, the first one read() delivers:
   that pass issues no scales ioctl and leaves every scale, counter, bias,
   filter and print-count value as it was, and no later delivered frame is
   discarded by this rule. *)
C22_FirstFrameDiscarded ==
  /\ pcnt.reads >= 1 <=> ~app.first
  /\ pev.kind = "discard" <=> (pcnt.reads = 1 /\ pev.kind # "readfail")
  /\ pev.kind = "discard" =>
        /\ pev.calls = <<"read">>
        /\ pcnt.scalls = 0
        /\ pev.pre.first
        /\ app = [pev.pre EXCEPT !.first = FALSE]
        /\ ~pev.printed

C22_Witness ==
  /\ pev.kind = "accept"
  /\ pcnt.reads = 2
  /\ pcnt.accepted = 1

(* ------------------------------------------------------------------ *)
(* C23: the scales ioctl succeeds at most once and is never issued again
   after it succeeded; until it has succeeded every delivered frame is
   dropped with no conversion, counter, bias, filter or output update, so
   every accepted frame and every output line is computed with the scales
   the ioctl delivered, never with the initial ones. *)
ScalesCalled == \E k \in 1..Len(pev.calls) : pev.calls[k] = "ioctl_scales"

C23_ScalesOnceBeforeAnyOutput ==
  /\ pcnt.sok <= 1
  /\ pcnt.sok = 1 <=> app.fs_ready
  /\ ScalesCalled => ~pev.pre.fs_ready /\ ~pev.pre.first
  /\ ~app.fs_ready =>
        /\ app = [AppStart EXCEPT !.first = app.first]
        /\ pcnt.accepted = 0
        /\ pcnt.prints = 0
  /\ pev.kind = "noscale" => app = pev.pre /\ ~pev.printed /\ ScalesCalled
  /\ pev.kind = "accept" =>
        /\ app.fs_ready
        /\ app.gyro_lsb_per_dps = pin.scales[2]
        /\ app.accel_lsb_per_g
              = IF app.accel_scale_sanity_fixed /\ pcnt.fixes = 1
                  THEN (IF app.accel_lsb_per_g > pin.scales[1]
                          THEN 2 * pin.scales[1] ELSE pin.scales[1] \div 2)
                  ELSE pin.scales[1]
        /\ pev.vals = Convert(pev.smp, app.accel_lsb_per_g, pin.scales[2])
  /\ pev.printed => pev.kind = "accept"

C23_Witness ==
  /\ pcnt.scalls = 3
  /\ pcnt.sok = 1
  /\ pev.printed
  /\ pin.scales[2] # AppStart.gyro_lsb_per_dps

(* ------------------------------------------------------------------ *)
(* C24: each sanity counter is the length of the current uninterrupted run
   of accepted frames whose norm lies in its own band: an accepted frame
   outside the band, a frame inside the other band included, leaves it at
   zero; the scale is corrected only on a frame that completes at least 5
   consecutive accepted frames in one band, and on the 5th one while the
   latch is unset. *)
ScaleSeen ==
  IF pev.pre.fs_ready THEN pev.pre.accel_lsb_per_g ELSE pin.scales[1]

FixedNow ==
  pev.kind = "accept" /\ app.accel_scale_sanity_fixed
    /\ ~pev.pre.accel_scale_sanity_fixed

C24_CountersAreRunLengths ==
  /\ pev.kind = "accept" =>
        /\ pev.norm.q = SumSq(pev.smp)
        /\ ~InHighBand(pev.norm, ScaleSeen) => app.anorm_high_cnt = 0
        /\ ~InLowBand(pev.norm, ScaleSeen) => app.anorm_low_cnt = 0
  /\ ~app.accel_scale_sanity_fixed =>
        /\ app.anorm_high_cnt = pcnt.hrun
        /\ app.anorm_low_cnt = pcnt.lrun
        /\ pcnt.hrun < anorm_trigger_frames
        /\ pcnt.lrun < anorm_trigger_frames
  /\ FixedNow =>
        \/ pcnt.hrun = anorm_trigger_frames
             /\ app.accel_lsb_per_g = 2 * ScaleSeen
        \/ pcnt.lrun = anorm_trigger_frames
             /\ 2 * app.accel_lsb_per_g = ScaleSeen

(* The correction firing on a frame that ends a run of one frame. *)
C24_FixAfterBrokenRun ==
  /\ FixedNow
  /\ pcnt.hrun <= 1
  /\ pcnt.lrun <= 1

(* ------------------------------------------------------------------ *)
(* C25: once the scales ioctl has succeeded the loop changes its accel
   scale at most once, to the double or the half of the delivered value;
   the latch, once set, stays set and the scale then stays as it is, however
   many frames fall into a band afterwards; the gyro scale is never
   changed. *)
C25_AccelScaleFixedAtMostOnce ==
  /\ pcnt.fixes <= 1
  /\ pcnt.fixes = 1 <=> app.accel_scale_sanity_fixed
  /\ pev.pre.accel_scale_sanity_fixed =>
        /\ app.accel_scale_sanity_fixed
        /\ app.accel_lsb_per_g = pev.pre.accel_lsb_per_g
  /\ app.fs_ready =>
        /\ app.gyro_lsb_per_dps = pin.scales[2]
        /\ IF app.accel_scale_sanity_fixed
             THEN app.accel_lsb_per_g \in {2 * pin.scales[1],
                                           pin.scales[1] \div 2}
             ELSE app.accel_lsb_per_g = pin.scales[1]

C25_Witness ==
  /\ app.accel_scale_sanity_fixed
  /\ pev.pre.accel_scale_sanity_fixed
  /\ pcnt.hrun >= 2 * anorm_trigger_frames
  /\ app.accel_lsb_per_g = 2 * pin.scales[1]

(* ------------------------------------------------------------------ *)
(* C26: the six bias terms change only on an accepted frame that is stable,
   that is whose largest absolute gyro value is below 1.0 dps and whose
   norm, under the accel scale as corrected on that frame, differs from
   1.0 g by less than 0.02 g; then each moves by the moving average of
   line 257-263.  A discarded, dropped, failed or unstable pass leaves all
   six as they were, and nothing sets them back to zero. *)
GyroFields == SampleFields \ AccelFields

QuietAndLevel ==
  /\ \A f \in GyroFields : 10 * Abs(pev.smp[f]) < app.gyro_lsb_per_dps
  /\ AnormAbove(pev.norm, app.accel_lsb_per_g, 98)
  /\ AnormBelow(pev.norm, app.accel_lsb_per_g, 102)

C26_BiasMovesOnlyWhenStable ==
  /\ pev.kind = "accept" => (pev.stable <=> QuietAndLevel)
  /\ pev.kind # "accept" => ~pev.stable
  /\ ~pev.stable => app.bias = pev.pre.bias
  /\ pev.stable =>
        \A f \in SampleFields :
          /\ app.bias[f] = Ema(pev.pre.bias[f], pev.vals[f])
          /\ Abs(pev.vals[f] - app.bias[f])
                <= Abs(pev.vals[f] - pev.pre.bias[f])

C26_Witness ==
  /\ pev.kind = "accept"
  /\ ~pev.stable
  /\ \A f \in GyroFields : pev.smp[f] = 0
  /\ app.bias.accel_z > 0
  /\ ~AnormBelow(pev.norm, app.accel_lsb_per_g, 102)
  /\ AnormBelow(pev.norm, app.accel_lsb_per_g, 103)

(* ------------------------------------------------------------------ *)
(* C27: when the first accepted frame has the raw accel (0, 0, 16384) and
   the raw gyro (0, 0, 0) under an accel scale of 16384, it is judged
   stable and the filter is seeded with exactly (0, 0, 1.0) g and
   (0, 0, 0) dps. *)
AtRest == SampleOf(1)

FirstAcceptedAtRest ==
  /\ pev.kind = "accept"
  /\ pcnt.accepted = 1
  /\ pev.smp = AtRest
  /\ app.accel_lsb_per_g = 16384
  /\ ~app.accel_scale_sanity_fixed

C27_SeedIsOneG ==
  FirstAcceptedAtRest =>
    /\ pev.stable
    /\ app.filt_init
    /\ app.filt = [ZeroSample EXCEPT !.accel_z = AccUnit]

(* ------------------------------------------------------------------ *)
(* C28: on a stable frame each gyro bias moves toward the frame's gyro
   value and the accel Z bias moves toward the frame's Z value minus 1 g,
   never away from it, so that under repeated identical stable samples the
   bias-removed Z output keeps gravity instead of being driven to 0. *)
OneG == AccUnit

C28_ZBiasKeepsGravity ==
  pev.stable =>
    /\ \A f \in GyroFields :
          Abs(pev.vals[f] - app.bias[f]) <= Abs(pev.vals[f] - pev.pre.bias[f])
    /\ Abs((pev.vals.accel_z - OneG) - app.bias.accel_z)
          <= Abs((pev.vals.accel_z - OneG) - pev.pre.bias.accel_z)

(* Twenty identical stable frames at rest: the Z bias has taken up a tenth
   of gravity already, and the bias-removed Z value has lost it. *)
C28_GravityDrained ==
  /\ pcnt.accepted = 20
  /\ pin.script.f1 = 1 /\ pin.script.f2 = 1
  /\ pev.stable
  /\ 10 * app.bias.accel_z > OneG - OneG \div 20
  /\ 10 * (pev.vals.accel_z - app.bias.accel_z) < 9 * OneG + OneG \div 20

(* ------------------------------------------------------------------ *)
(* C29: the filter is seeded exactly once, on the first accepted frame,
   with that frame's bias-removed values; on every later accepted frame
   each filtered value becomes 0.15 * value + 0.85 * filtered, which never
   moves away from the bias-removed value and never passes it; no other
   pass touches the filter. *)
Unbiased(f) == pev.vals[f] - app.bias[f]

C29_FilterSeededOnceThenSmooths ==
  /\ app.filt_init <=> pcnt.accepted >= 1
  /\ pev.kind # "accept" =>
        app.filt = pev.pre.filt /\ app.filt_init = pev.pre.filt_init
  /\ pev.kind = "accept" /\ ~pev.pre.filt_init =>
        /\ pcnt.accepted = 1
        /\ \A f \in SampleFields : app.filt[f] = Unbiased(f)
  /\ pev.kind = "accept" /\ pev.pre.filt_init =>
        /\ pcnt.accepted > 1
        /\ \A f \in SampleFields :
             LET old == pev.pre.filt[f]
                 new == app.filt[f]
             IN /\ Abs(100 * (new - old) - 15 * (Unbiased(f) - old)) <= 50
                /\ Abs(Unbiased(f) - new) <= Abs(Unbiased(f) - old)
                /\ \/ old <= new /\ new <= Unbiased(f)
                   \/ Unbiased(f) <= new /\ new <= old

C29_Witness ==
  /\ pev.kind = "accept"
  /\ pcnt.accepted = 3
  /\ pev.pre.filt_init
  /\ app.filt.accel_z > pev.pre.filt.accel_z
  /\ app.filt.accel_z < Unbiased("accel_z")
  /\ app.filt.gyro_y < pev.pre.filt.gyro_y

(* ------------------------------------------------------------------ *)
(* C30: an output line is written on every 10th accepted frame and on no
   other pass; between passes the print counter lies in 0..9; an accepted
   frame that is not printed still gets the bias update when stable, the
   bias removal and the filter update. *)
C30_OutputEveryTenthFrame ==
  /\ app.print_count \in 0..(print_every_n - 1)
  /\ app.print_count = pcnt.accepted % print_every_n
  /\ pcnt.prints = pcnt.accepted \div print_every_n
  /\ pev.printed <=>
        pev.kind = "accept" /\ pcnt.accepted % print_every_n = 0
  /\ pev.kind = "accept" /\ ~pev.printed =>
        /\ app.print_count = pev.pre.print_count + 1
        /\ app.filt_init
        /\ \A f \in SampleFields :
             /\ app.bias[f] = IF pev.stable
                                THEN Ema(pev.pre.bias[f], pev.vals[f])
                                ELSE pev.pre.bias[f]
             /\ app.filt[f] = IF pev.pre.filt_init
                                THEN Iir(pev.pre.filt[f],
                                         pev.vals[f] - app.bias[f])
                                ELSE pev.vals[f] - app.bias[f]

C30_Witness ==
  /\ pev.printed
  /\ pcnt.prints = 2
  /\ pcnt.accepted = 2 * print_every_n
  /\ app.print_count = 0
  /\ app.filt # pev.pre.filt

(* ------------------------------------------------------------------ *)
(* C31: a pass of the loop whose read() does not return a full sample
   changes none of the loop's locals (first-frame flag, scale-ready flag,
   both scales, latch, both sanity counters, six bias terms, filter flag,
   six filter values, print counter), issues nothing but that read, writes
   no line, and the loop goes on polling. *)
C31_FailedReadChangesNothing ==
  pev.kind = "readfail" =>
    /\ app = pev.pre
    /\ pev.calls = <<"read">>
    /\ ~pev.printed
    /\ pcnt.reads < MaxFrames => ENABLED PipeLoop

C31_Witness ==
  /\ pev.kind = "readfail"
  /\ app.fs_ready /\ app.filt_init /\ app.accel_scale_sanity_fixed
  /\ app.bias.accel_z # 0
  /\ app.filt.accel_z # 0
  /\ app.print_count > 0

(* ------------------------------------------------------------------ *)
(* The last thing the utility did is return from op. *)
LedReturned(op) == lblink.pc = "idle" /\ lout.op = op

(* C32: whenever led_control_blink returns after its loop has started, on
   the Ctrl+C path or on any other, the last LED command it issued is OFF,
   so a returned blink call never leaves the LED commanded ON. *)
BlinkReturned == LedReturned("blink") /\ lout.started

C32_BlinkEndsWithOff ==
  BlinkReturned => llog.last = "OFF"

(* A blink call that returned the error of its OFF command, with the LED
   still lit by the ON command before it. *)
C32_ReturnedWithLedOn ==
  /\ BlinkReturned
  /\ lout.ret < 0
  /\ llog.last = "OFF"
  /\ llog.on

(* ------------------------------------------------------------------ *)
(* C33: over any sequence of init, set, blink and deinit calls the
   initialised flag is true only while the descriptor is valid; every open
   descriptor comes from one open() not yet closed, so an initialised
   module is never opened again and a descriptor is closed once; a failed
   open leaves the module uninitialised; deinit always returns OK with
   descriptor -1 and the flag false, also on an uninitialised module. *)
C33_LedDescriptorLifecycle ==
  /\ led.initialized => led.fd >= 0
  /\ led.fd >= -1
  /\ llog.fds - llog.closes = (IF led.initialized THEN 1 ELSE 0)
  /\ llog.fds - llog.closes = (IF led.fd >= 0 THEN 1 ELSE 0)
  /\ LedReturned("init") =>
        IF lout.ret < 0 THEN ~led.initialized /\ led.fd < 0
                        ELSE led.initialized /\ lout.ret = OK
  /\ LedReturned("deinit") =>
        /\ lout.ret = OK
        /\ led = [fd |-> -1, initialized |-> FALSE]

C33_Witness ==
  /\ LedReturned("init") /\ lout.ret = OK
  /\ lout.calls = 4
  /\ llog.fds = 2
  /\ llog.closes = 1

(* ------------------------------------------------------------------ *)
(* C34: device present only at the alternate address                   *)
(* ------------------------------------------------------------------ *)
(* The call got as far as the bus, and every write it addressed to the
   configured address failed. Identity reads happen only after a reset
   write that succeeded, so in such a state no read was addressed to the
   configured address either. *)
ConfiguredAddressDead ==
  /\ cfg.valid
  /\ wlog # <<>>
  /\ \A k \in 1..Len(wlog) : wlog[k].addr = cfg.addr => wlog[k].rc < 0

(* C34: when every bus transaction addressed to the configured address
   fails, a finished icm42688_register call has tried the alternate
   address (AddressFallback) instead of aborting at once. *)
C34_DeadAddressFallsBack ==
  pc = "done" /\ ConfiguredAddressDead => FallbackTaken

(* ------------------------------------------------------------------ *)
(* C35: the bias is removed after it was updated                       *)
(* ------------------------------------------------------------------ *)
(* value - ((1 - 0.005) * old_bias + 0.005 * value) on a stable frame,
   value - old_bias on any other, in the units of the values. *)
FilterInput(f) ==
  LET x == pev.vals[f]
      old == pev.pre.bias[f]
  IN IF pev.stable THEN x - (old + Round(x - old, 200)) ELSE x - old

(* C35: on every accepted frame, stable or not, the bias is subtracted
   from all six axes before filtering; on a stable frame the bias
   subtracted is the one already updated with that frame, on any other it
   is the old bias. The filter is seeded with, or smoothed towards, exactly
   that difference. *)
C35_UpdatePrecedesRemoval ==
  pev.kind = "accept" =>
    \A f \in SampleFields :
      /\ FilterInput(f) = pev.vals[f] - app.bias[f]
      /\ app.filt[f] = IF pev.pre.filt_init
                         THEN pev.pre.filt[f]
                                + Round(15 * (FilterInput(f) - pev.pre.filt[f]), 100)
                         ELSE FilterInput(f)

C35_Witness ==
  /\ pev.kind = "accept"
  /\ pev.stable
  /\ ~pev.pre.filt_init
  /\ app.bias.accel_z # pev.pre.bias.accel_z
  /\ app.filt.accel_z = pev.vals.accel_z - app.bias.accel_z
  /\ app.filt.accel_z # pev.vals.accel_z - pev.pre.bias.accel_z

(* ------------------------------------------------------------------ *)
(* C36: icm42688_register terminates within fixed transaction budgets  *)
(* ------------------------------------------------------------------ *)
RECURSIVE SumOf(_)
SumOf(q) == IF q = <<>> THEN 0 ELSE Head(q) + SumOf(Tail(q))

WithinBudget ==
  /\ Cardinality(WritesTo({ICM_REG_DEVICE_CONFIG})) <= 2
  /\ Len(idreads) <= 2
  /\ \A k \in 1..Len(idreads) : idreads[k] <= 50
  /\ SumOf(idreads) <= 100
  /\ Cardinality(WritesTo(ConfigRegs)) <= 5
  /\ Len(wlog) = Cardinality(WritesTo({ICM_REG_DEVICE_CONFIG})) + Cardinality(WritesTo(ConfigRegs))
  /\ nregcalls <= 1

RegisterReturned == pc = "done" /\ (ret = OK \/ ret < 0)

(* What the call has done so far: whether it left its entry, and the
   writes, identity reads and register_driver calls it issued. *)
StepsTaken ==
  (IF pc = "entry" THEN 0 ELSE 1) + Len(wlog) + SumOf(idreads) + nregcalls

(* C36: for every behaviour of the bus, icm42688_register issues at most 2
   soft-reset writes, at most 100 identity reads (50 per address), at most
   5 configuration writes and at most 1 register_driver call, and it
   terminates with OK or a negative error code: until it has returned a
   next step is always possible, every step adds to what the call has done,
   and that is bounded by the budgets, so no run goes on for ever. *)
C36_RegisterTerminates ==
  /\ [](WithinBudget /\ (RegisterReturned \/ ENABLED Next))
  /\ [][StepsTaken' > StepsTaken]_vars

C36_Witness ==
  /\ RegisterReturned
  /\ ret = OK
  /\ Cardinality(WritesTo({ICM_REG_DEVICE_CONFIG})) = 2
  /\ idreads = <<50, 50>>
  /\ Cardinality(WritesTo(ConfigRegs)) = 5
  /\ nregcalls = 1

(* ------------------------------------------------------------------ *)
(* C37: the scales of the default configuration                        *)
(* ------------------------------------------------------------------ *)
(* The byte icm_configure_default writes to register reg. *)
WrittenTo(reg) ==
  ConfigWrites[CHOOSE k \in 1..Len(ConfigWrites) : ConfigWrites[k].reg = reg].val

(* Both full-scale/rate registers still hold what bring-up wrote. *)
ConfigRetained ==
  /\ creg = WrittenTo(ICM_REG_ACCEL_CONFIG0)
  /\ greg = WrittenTo(ICM_REG_GYRO_CONFIG0)

(* C37: bring-up writes 0x66 to both full-scale/rate registers; when the
   device retains those bytes, ICM_IOCTL_GET_ACCEL_FS and _GET_GYRO_FS
   deliver selector 2, and scales[] before the sanity correction is accel
   16384 counts/g, gyro 656 tenths of a count per degree/s; the accel value
   is the one selector 0 maps to as well. *)
C37_DefaultConfigScales ==
  ConfigRetained =>
    /\ creg = 102 /\ greg = 102
    /\ lastop \in {"GET_ACCEL_FS", "GET_GYRO_FS"} /\ uret = OK => uval = 2
    /\ ScalesDerived =>
         /\ tscales[0] = 16384
         /\ tscales[1] = 656
         /\ tscales[0] = AccelTable[1]

C37_Witness ==
  /\ ConfigRetained
  /\ ScalesDerived
  /\ uret = OK
  /\ tscales[0] = 16384
  /\ tscales[1] = 656

(* ------------------------------------------------------------------ *)
(* C38: the scales the loop divides by                                 *)
(* ------------------------------------------------------------------ *)
(* The scales[] the loop was given came out of the driver's correction,
   not straight out of its table. *)
DriverCorrected == pin.scales[1] \notin {AccelTable[k] : k \in 1..4}

(* C38: once the loop has fetched the scales its accel scale stays within
   512..65536 counts/g and its gyro scale stays positive, whatever the
   driver delivered (table value or corrected value) and whatever the loop
   itself corrected afterwards; every accepted frame is converted with
   non-zero divisors. *)
C38_ScalesStayInRange ==
  /\ app.fs_ready =>
       /\ app.accel_lsb_per_g >= 512 /\ app.accel_lsb_per_g <= 65536
       /\ app.gyro_lsb_per_dps > 0
  /\ pev.kind = "accept" =>
       LET fetched == IF pev.pre.fs_ready
                        THEN <<pev.pre.accel_lsb_per_g, pev.pre.gyro_lsb_per_dps>>
                        ELSE pin.scales
       IN /\ app.fs_ready
          /\ fetched[1] >= 512 /\ fetched[1] <= 65536
          /\ fetched[2] > 0
          /\ app.gyro_lsb_per_dps = fetched[2]

C38_Witness ==
  /\ pev.kind = "accept"
  /\ DriverCorrected
  /\ pin.scales[1] = 1024
  /\ app.accel_scale_sanity_fixed
  /\ app.accel_lsb_per_g = 512
  /\ pcnt.accepted > anorm_trigger_frames

(* ------------------------------------------------------------------ *)
(* C39: an ioctl that fails writes nothing                             *)
(* ------------------------------------------------------------------ *)
(* The calls that go through icm_ioctl_dev. *)
IoctlOps == RegCmds \cup {"ioctl_sample", "ioctl_scales", "ioctl_other"}

(* The memory the caller's argument may point to: a sample, scales[2], or
   the int / uint8_t of the single-register commands. *)
UserOutput == <<ubuf, scales, uval>>

(* C39: an ioctl that returns an error (-EINVAL for a null argument, the
   bus error of a failed configuration-register read, the error of a failed
   or invalid sample fetch, -ENOTTY for an unknown command) leaves the
   caller's memory as it was; an unknown command returns -ENOTTY with no
   bus transaction; the memory changes only in a call that returns OK. *)
C39_ErrorLeavesOutputUntouched ==
  [][/\ lastop' \in IoctlOps /\ uret' < 0 => UserOutput' = UserOutput
     /\ lastop' \in IoctlOps /\ UserOutput' # UserOutput => uret' = OK
     /\ lastop' = "ioctl_other" =>
          uret' = -ENOTTY /\ nbus' = 0 /\ sbus' = <<>>]_vars

C39_Witness ==
  /\ lastop = "ioctl_scales"
  /\ ~uarg.null
  /\ uret < 0
  /\ Len(sbus) = 2
  /\ sbus[1].rc = OK
  /\ scales[0] = 7 /\ scales[1] = 7

====
